------------------------------- MODULE SendRecv -------------------------------
(***************************************************************************)
(* ConnectionWrapper::sendRecvData over the ConnectionWorker: a client     *)
(* thread registers a callback that points into its own stack frame, sends *)
(* its request and waits on a condition variable for the callback to store *)
(* the answer.                                                             *)
(*                                                                         *)
(* Call i of client k has the frame, the callback and the request <<k, i>>.*)
(* The answer to it bears the same name.  Each client has a wrapper with a *)
(* port and channel of its own.                                            *)
(*                                                                         *)
(* The worker is taken as Dispatcher describes it: a dispatch is one step  *)
(* (DispatchIsAtomic), the thread of the first match has the callback it   *)
(* was spawned for (OwnIterator) and copies its packet later, from the     *)
(* worker's one buffer; the thread of another match finds the loop's frame *)
(* gone.  That the wait of line 98 is not woken spuriously and that the    *)
(* worker lives is assumed (UndefinedHasCause).                            *)
(*                                                                         *)
(* The connection, its losses and the firmware are external.  A thread     *)
(* that follows a pointer into a dead frame, or calls or erases an erased  *)
(* callback, goes "wild", and nothing is claimed afterwards.               *)
(***************************************************************************)
EXTENDS Naturals, FiniteSets

CONSTANTS
  Clients,   \* threads that call sendRecvData, each over a wrapper of its own
  MaxCalls,  \* bound: how often each client calls
  Timeouts,  \* the timeouts each client's calls may have; 0 is none
  MayLose,   \* may the link lose a request or an answer?
  Pending,   \* the result of a call that has not ended
  NoPacket,  \* the packet that res is before an answer is stored
  Torn       \* what may be copied from p_recv while recv is at work on it: a torn
             \* packet, or the empty one of a recv that found nothing

ASSUME SendRecvAssumption ==
  /\ MaxCalls \in [Clients -> Nat] /\ Timeouts \in [Clients -> SUBSET Nat]
  /\ MayLose \in BOOLEAN
  /\ Pending # NoPacket /\ Torn \notin {Pending, NoPacket}
  /\ {Pending, NoPacket, Torn} \cap (Clients \X Nat) = {}

VARIABLES
  calls,     \* how many calls each client has begun
  cpc,       \* control point of each client
  timeout,   \* the argument of its call
  res,       \* the frame: res
  returned,  \* the frame: isResultReturned
  list,      \* the callbacks in the worker's list
  tpc,       \* control point of the thread that gives packet t[1] to callback t[2]
  arg,       \* what that thread has copied from p_recv
  buffer,    \* p_recv: the packet dispatched last; Torn from when recv is called again
  requests,  \* requests on their way
  answers,   \* answers on their way
  lost,      \* calls whose request or answer the link has lost
  got,       \* ghost: the result of each call
  strayed,   \* ghost: the clients that have had a call time out
  late       \* ghost: the clients one of whose callback threads has copied another
             \* packet than its own, or not erased its callback by the next answer

clientVars == <<calls, cpc, timeout, got, strayed>>
frameVars  == <<res, returned>>
bufferVars == <<arg, buffer, late>>
workerVars == <<list, tpc, bufferVars>>
linkVars   == <<requests, answers, lost>>
vars       == <<clientVars, frameVars, workerVars, linkVars>>

Calls   == UNION {{k} \X (1..MaxCalls[k]) : k \in Clients}
Threads == Calls \X Calls

Frame(k)      == <<k, calls[k]>>
FrameAlive(f) == cpc[f[1]] # "idle" /\ calls[f[1]] = f[2]

\* The callback's thread holds the frame's mu from line 66 to the lambda's end.
Inside(f) == \E p \in Calls : tpc[<<p, f>>] \in {"notify", "setFlag"}

\* Else the client holds mu, except while the condition variable has put it to sleep.
Asleep   == {"waiting", "woken", "timedOut"}
MuIsFree(f) == cpc[f[1]] \in Asleep /\ ~Inside(f)

UB == \E t \in Threads : tpc[t] = "wild"

Init ==
  /\ calls = [k \in Clients |-> 0] /\ cpc = [k \in Clients |-> "idle"]
  /\ timeout = [k \in Clients |-> 0]
  /\ res = [k \in Clients |-> NoPacket] /\ returned = [k \in Clients |-> FALSE]
  /\ list = {} /\ tpc = [t \in Threads |-> "none"]
  /\ arg = [t \in Threads |-> Torn] /\ buffer = Torn /\ late = {}
  /\ requests = {} /\ answers = {} /\ lost = {}
  /\ got = [f \in Calls |-> Pending] /\ strayed = {}

-----------------------------------------------------------------------------
(* The client: sendRecvData.                                               *)

Move(k, pc) == cpc' = [cpc EXCEPT ![k] = pc]

\* Mutated form: the callback is not registered.
callUnregistered(k) ==
  /\ cpc[k] = "idle" /\ calls[k] < MaxCalls[k]
  /\ calls' = [calls EXCEPT ![k] = @ + 1] /\ Move(k, "registered")
  /\ \E to \in Timeouts[k] : timeout' = [timeout EXCEPT ![k] = to]
  /\ res' = [res EXCEPT ![k] = NoPacket] /\ returned' = [returned EXCEPT ![k] = FALSE]
  /\ UNCHANGED <<got, strayed, workerVars, linkVars>>

\* Lines 54-72: a new frame, mu locked, and its callback registered.
call(k) ==
  /\ cpc[k] = "idle" /\ calls[k] < MaxCalls[k]
  /\ calls' = [calls EXCEPT ![k] = @ + 1] /\ Move(k, "registered")
  /\ \E to \in Timeouts[k] : timeout' = [timeout EXCEPT ![k] = to]
  /\ res' = [res EXCEPT ![k] = NoPacket] /\ returned' = [returned EXCEPT ![k] = FALSE]
  /\ list' = list \cup {<<k, calls[k] + 1>>}
  /\ UNCHANGED <<got, strayed, tpc, bufferVars, linkVars>>

send(k) ==
  /\ cpc[k] = "registered" /\ Move(k, "sent")
  /\ requests' = requests \cup {Frame(k)}
  /\ UNCHANGED <<calls, timeout, got, strayed, frameVars, workerVars, answers, lost>>

\* The frame dies.  A call that returns without an answer leaves its client astray.
Return(k) ==
  /\ Move(k, "idle") /\ got' = [got EXCEPT ![Frame(k)] = res[k]]
  /\ strayed' = strayed \cup (IF res[k] = NoPacket THEN {k} ELSE {})

\* Line 76, and the predicate before the wait: with the answer there is no wait.
CheckThenWait(k) ==
  /\ cpc[k] = "sent"
  /\ IF returned[k] THEN Return(k) ELSE Move(k, "waiting") /\ UNCHANGED <<got, strayed>>
  /\ UNCHANGED <<calls, timeout, frameVars, workerVars, linkVars>>

\* The notified client has mu again and evaluates the predicate.
Recheck(k) ==
  /\ cpc[k] = "woken" /\ ~Inside(Frame(k))
  /\ IF returned[k] THEN Return(k) ELSE Move(k, "waiting") /\ UNCHANGED <<got, strayed>>
  /\ UNCHANGED <<calls, timeout, frameVars, workerVars, linkVars>>

\* Either wait may end without a notification.
WakeSpuriously(k) ==
  /\ cpc[k] = "waiting" /\ Move(k, "woken")
  /\ UNCHANGED <<calls, timeout, got, strayed, frameVars, workerVars, linkVars>>

\* wait_for gives up waiting for a notification; mu it must wait for still.
Expire(k) ==
  /\ cpc[k] = "waiting" /\ timeout[k] # 0 /\ Move(k, "timedOut")
  /\ UNCHANGED <<calls, timeout, got, strayed, frameVars, workerVars, linkVars>>

\* Lines 84-90: res is returned whether wait_for has found an answer or not.
ReturnAfterTimeout(k) ==
  /\ cpc[k] = "timedOut" /\ ~Inside(Frame(k))
  /\ Return(k) /\ UNCHANGED <<calls, timeout, frameVars, workerVars, linkVars>>

Client(k) ==
  /\ ~UB
  /\ \/ send(k) \/ CheckThenWait(k) \/ Recheck(k) \/ Expire(k) \/ ReturnAfterTimeout(k)

-----------------------------------------------------------------------------
(* The callback of line 65, in the thread t = <<p, f>> of packet p.        *)

Step(t, from, to) == tpc[t] = from /\ tpc' = [tpc EXCEPT ![t] = to]

\* ConnectionWorker.cpp:91: the callback is called with what p_recv holds by now.
CallCallback(t) ==
  /\ t[2] \in list /\ Step(t, "spawned", "called")
  /\ arg' = [arg EXCEPT ![t] = buffer]
  /\ late' = late \cup (IF buffer # t[1] THEN {t[2][1]} ELSE {})
  /\ UNCHANGED <<list, buffer, clientVars, frameVars, linkVars>>

\* Mutated form: the callback does not lock mu.
StoreAnswerNoLock(t) ==
  /\ FrameAlive(t[2]) /\ t[2] \in list /\ Step(t, "called", "notify")
  /\ res' = [res EXCEPT ![t[2][1]] = arg[t]]
  /\ UNCHANGED <<list, bufferVars, clientVars, returned, linkVars>>

\* Lines 65-66: mu locked, the packet stored in the frame's res.
StoreAnswer(t) ==
  /\ FrameAlive(t[2]) /\ t[2] \in list /\ MuIsFree(t[2]) /\ Step(t, "called", "notify")
  /\ res' = [res EXCEPT ![t[2][1]] = arg[t]]
  /\ UNCHANGED <<list, bufferVars, clientVars, returned, linkVars>>

\* Line 67 wakes the client, which must wait for mu.
NotifyClient(t) ==
  /\ t[2] \in list /\ Step(t, "notify", "setFlag")
  /\ cpc' = [cpc EXCEPT ![t[2][1]] = IF @ = "waiting" THEN "woken" ELSE @]
  /\ UNCHANGED <<list, bufferVars, calls, timeout, got, strayed, frameVars, linkVars>>

\* Mutated form: the callback keeps itself registered.
SetFlagKeep(t) ==
  /\ Step(t, "setFlag", "erased")
  /\ returned' = [returned EXCEPT ![t[2][1]] = TRUE]
  /\ UNCHANGED <<list, bufferVars, clientVars, res, linkVars>>

\* Lines 68-69: the flag, mu released, and false returned to the worker.
SetFlag(t) ==
  /\ t[2] \in list /\ Step(t, "setFlag", "refused")
  /\ returned' = [returned EXCEPT ![t[2][1]] = TRUE]
  /\ UNCHANGED <<list, bufferVars, clientVars, res, linkVars>>

\* ConnectionWorker.cpp:93-94: the callback that has returned false is removed.
Erase(t) ==
  /\ t[2] \in list /\ list' = list \ {t[2]}
  /\ Step(t, "refused", "erased")
  /\ UNCHANGED <<bufferVars, clientVars, frameVars, linkVars>>

\* The loop's frame is gone (a second match is not waited for), the callback is erased,
\* or the frame of its call is dead.
GoWild(t) ==
  /\ \/ Step(t, "unawaited", "wild")
     \/ t[2] \notin list /\ \E pc \in {"spawned", "called", "notify", "setFlag", "refused"} :
                               Step(t, pc, "wild")
     \/ ~FrameAlive(t[2]) /\ Step(t, "called", "wild")
  /\ UNCHANGED <<list, bufferVars, clientVars, frameVars, linkVars>>

Thread(t) ==
  /\ ~UB
  /\ \/ CallCallback(t) \/ StoreAnswer(t) \/ NotifyClient(t)
     \/ SetFlag(t) \/ Erase(t) \/ GoWild(t)

-----------------------------------------------------------------------------
(* The link, the firmware and the worker's dispatch.                       *)

Answer(f) ==
  /\ f \in requests /\ requests' = requests \ {f} /\ answers' = answers \cup {f}
  /\ UNCHANGED <<clientVars, frameVars, workerVars, lost>>

Lose(f) ==
  /\ MayLose /\ f \in requests \cup answers
  /\ requests' = requests \ {f} /\ answers' = answers \ {f} /\ lost' = lost \cup {f}
  /\ UNCHANGED <<clientVars, frameVars, workerVars>>

OnChannelOf(p) == {g \in Calls : g[1] = p[1]}

\* ConnectionWorker.cpp:58: recv begins to overwrite p_recv.
ReceiveAgain ==
  /\ buffer # Torn /\ buffer' = Torn
  /\ UNCHANGED <<list, tpc, arg, late, clientVars, frameVars, linkVars>>

\* Some callback of the channel has returned false and is still listed.
EraseIsDue(p) == \E t \in Threads : t[2] \in OnChannelOf(p) /\ tpc[t] = "refused"

Received(p) ==
  /\ buffer = Torn /\ buffer' = p
  /\ p \in answers /\ answers' = answers \ {p}
  /\ late' = late \cup (IF EraseIsDue(p) THEN {p[1]} ELSE {})
  /\ UNCHANGED <<list, arg, clientVars, frameVars, requests, lost>>

\* Mutated form: packets are given to the callbacks of every channel.
DispatchAll(p) ==
  /\ Received(p)
  /\ tpc' = [t \in Threads |-> IF t[1] = p /\ t[2] \in list THEN "spawned" ELSE tpc[t]]

\* A packet is received, and a thread spawned for every callback of its channel; the
\* loop waits only for the first, which is that of the oldest call.
Dispatch(p) ==
  LET matched == list \cap OnChannelOf(p)
      first   == {f \in matched : \A g \in matched : f[2] <= g[2]}
  IN  /\ Received(p)
      /\ tpc' = [t \in Threads |->
           IF t[1] = p /\ t[2] \in first THEN "spawned"
           ELSE IF t[1] = p /\ t[2] \in matched THEN "unawaited" ELSE tpc[t]]

Link ==
  /\ ~UB
  /\ ReceiveAgain \/ \E f \in Calls : Answer(f) \/ Dispatch(f)

-----------------------------------------------------------------------------
Next ==
  \/ \E k \in Clients : Client(k) \/ (~UB /\ call(k))
  \/ \E t \in Threads : Thread(t)
  \/ Link
  \/ ~UB /\ \E f \in Calls : Lose(f)
  \/ ~UB /\ \E k \in Clients : WakeSpuriously(k)

Spec == Init /\ [][Next]_vars

\* Some thread that can run does run, the firmware answers and the link delivers what
\* it does not lose; nothing makes a client call.  The steps of a call are finitely
\* many, so this is enough for every thread to get its turn; the waits wake spuriously only
\* finitely often.
Progress == Link \/ (\E k \in Clients : Client(k)) \/ (\E t \in Threads : Thread(t))

FairSpec ==
  Spec /\ WF_vars(Progress) /\ <>[][\A k \in Clients : ~WakeSpuriously(k)]_vars

-----------------------------------------------------------------------------
(* Properties.                                                             *)

TPcs == {"none", "spawned", "unawaited", "called", "notify", "setFlag", "refused", "erased",
         "wild"}
Results == Calls \cup {NoPacket, Torn}
Busy == {k \in Clients : cpc[k] # "idle"}

\* Types; a callback that is inside a frame's critical section is in a live frame whose
\* client is asleep.
TypeOK ==
  /\ calls \in [Clients -> Nat] /\ \A k \in Clients : calls[k] <= MaxCalls[k]
  /\ cpc \in [Clients -> {"idle", "registered", "sent"} \cup Asleep]
  /\ timeout \in [Clients -> Nat]
  /\ res \in [Clients -> Results] /\ returned \in [Clients -> BOOLEAN]
  /\ list \subseteq Calls /\ tpc \in [Threads -> TPcs]
  /\ arg \in [Threads -> Calls \cup {Torn}] /\ buffer \in Calls \cup {Torn}
  /\ \A t \in Threads : tpc[t] \in {"notify", "setFlag"} =>
        FrameAlive(t[2]) /\ cpc[t[2][1]] \in Asleep
  /\ requests \subseteq Calls /\ answers \subseteq Calls /\ lost \subseteq Calls
  /\ got \in [Calls -> Results \cup {Pending}]
  /\ strayed \subseteq Clients /\ late \subseteq Clients

\* sendRecvData keeps the promise of Rpc: a call ends with its own answer unless its
\* client has had a timeout or a callback thread that was late, and a call without a
\* timeout never ends because nothing came.
Promise == INSTANCE Rpc WITH busy <- Busy
KeepsPromise == Promise!RpcSpec

\* A callback is called again or reaches into a frame that is dead, or two are called for
\* one packet, only for a client that has had a call time out or a callback thread that
\* was late: no other client's callbacks dangle.
WildOnlyIfAstray ==
  \A t \in Threads : tpc[t] = "wild" => t[2][1] \in strayed \cup late

\* The lock that a call holds until it waits makes the notification of line 67 reach it: a
\* client that sleeps on a frame with a packet in it has a notification on its way.
NoLostNotification ==
  \A k \in Clients : cpc[k] = "waiting" /\ res[k] # NoPacket =>
     \E p \in Calls : tpc[<<p, Frame(k)>>] = "notify"

\* A call returns, unless it has no timeout and the link has lost its answer.
CallReturns ==
  \A k \in Clients :
     (k \in Busy) ~> (k \notin Busy \/ UB \/ (timeout[k] = 0 /\ Frame(k) \in lost))

\* The callback of a call that has got its answer stays in the worker's list only
\* until the thread that stored the answer has erased it.
NoLeakedCallback ==
  \A f \in list : got[f] \in Calls \cup {Torn} => \E p \in Calls : tpc[<<p, f>>] \in {"refused", "wild"}

\* "If it returns false then the callback is removed from the list"
\* (ConnectionWorker.h:19): it is not called again.
RefusedNotCalled ==
  \A p, q, f \in Calls : tpc[<<p, f>>] = "refused" => tpc[<<q, f>>] # "spawned"
=============================================================================
