-------------------------------- MODULE LogData --------------------------------
(***************************************************************************)
(* Log data (addLogCallback of Log.cpp) over the cache of log blocks: the  *)
(* Crazyflie sends the values of a running block again and again, and a    *)
(* thread per packet and callback decodes them with the list of items that *)
(* the library keeps for the block.                                        *)
(*                                                                         *)
(* The callback holds a bare pointer to that list.  The client thread      *)
(* appends to the list, and frees it with the block, while the threads     *)
(* iterate over it: nothing orders them.  An iterator reads a list as it   *)
(* is at its step.  A step through a pointer to what is gone makes its     *)
(* callback "wild", and nothing is claimed of the program afterwards (UB). *)
(*                                                                         *)
(* The worker is taken as in SendRecv: a dispatch is one step, the thread  *)
(* of the first match copies the packet later, from the worker's buffer,   *)
(* and that of another match finds the loop's frame gone.                  *)
(*                                                                         *)
(* A value is known by the item it is a value of.                          *)
(***************************************************************************)
EXTENDS Log, TocTypes, SequencesExt

CONSTANTS
  Listeners,  \* the callbacks the client ever adds
  ItemType,   \* the type byte of each item in the log TOC
  MaxPackets, \* bound: data packets on their way or given to threads at a time
  MaxActive,  \* bound: those that are not left to be erased
  Unbound,    \* a callback that has not been added
  NoValue,    \* an empty hold_any
  Garbage     \* bytes that are no item's value

ASSUME DataAssumption ==
  /\ ItemType \in [Items -> DOMAIN LOG_TYPES] /\ MaxPackets \in Nat /\ MaxActive \in Nat
  /\ Unbound \notin [id : Ids, ok : BOOLEAN] /\ {NoValue, Garbage} \cap Items = {}

VARIABLES
  running,  \* firmware: the blocks that are started
  link,     \* those the receive thread has not dispatched
  cbs,      \* the callbacks registered on the data channel
  bound,    \* what each callback captured: the id, and whether its list is there
  threads,  \* the callback threads; pkt is what p_recv holds until they have copied it
  refused,  \* ghost: the callbacks that have returned false
  wild,     \* the callbacks a thread of which met undefined behaviour
  own,      \* ghost: the blocks on the firmware that this session made
  pulled,   \* ghost: the callbacks whose list was missing or freed while in use
  late      \* ghost: the callbacks given a packet when they were due to be erased

dataVars == <<running, link, cbs, bound, threads, refused, wild, own, pulled, late>>
vars     == <<logVars, dataVars>>

UB == wild # {}

\* The items of a packet whose bytes are not told apart: of a block from an earlier
\* session, of one that the library has no list of any more, or copied while torn.
Outdated == <<>>

Init ==
  /\ LogInit
  /\ running \in SUBSET {i \in Ids : blocks[i] # NoBlock}
  /\ link = {} /\ cbs = {} /\ threads = {} /\ refused = {} /\ wild = {}
  /\ bound = [l \in Listeners |-> Unbound]
  /\ own = {} /\ pulled = {} /\ late = {}

-----------------------------------------------------------------------------
(* The client thread.                                                      *)

\* Line 41 takes the address of what find() returns, also if that is end().
addLogCallback(l, i) ==
  /\ op = NoOp /\ bound[l] = Unbound
  /\ bound' = [bound EXCEPT ![l] = [id |-> i, ok |-> logBlocks[i] # NoBlock]]
  /\ cbs' = cbs \cup {l}
  /\ pulled' = IF logBlocks[i] = NoBlock THEN pulled \cup {l} ELSE pulled
  /\ UNCHANGED <<logVars, running, link, threads, refused, wild, own, late>>

HasThread(l, pcs) == \E t \in threads : t.cb = l /\ t.pc \in pcs

\* A callback is in use until it has refused a packet and no thread is to decode for it.
Iterates(l) == HasThread(l, {"decoding"})
InUse(l)    == l \notin refused \/ HasThread(l, {"spawned", "decoding"})

Points(l, S) ==
  bound[l] # Unbound /\ bound[l].ok /\ bound[l].id \in S

FwDid(kind) == msg = "sent" /\ msg' = "answered" /\ code' = SUCCESS /\ op.kind = kind

\* A packet that was on its way when its list was freed may meet the list of another block.
Aged(p, S) == IF p.id \in S THEN [p EXCEPT !.items = Outdated] ELSE p

\* A step of Log.  Erasing an entry of _logBlocks frees its list; on the Crazyflie a
\* block starts and stops, and one that is gone does not run.
LogStep ==
  /\ LogNext
  /\ LET freed  == {i \in Ids : logBlocks[i] # NoBlock /\ logBlocks'[i] = NoBlock}
         noList == {i \in Ids : NoBlock \in {logBlocks[i], logBlocks'[i]}}
         alive  == {i \in Ids : blocks'[i] # NoBlock}
     IN  /\ bound' = [l \in Listeners |->
                        IF Points(l, freed) THEN [bound[l] EXCEPT !.ok = FALSE] ELSE bound[l]]
         /\ pulled' = pulled \cup {l \in Listeners : Points(l, freed) /\ InUse(l)}
         /\ own' = {i \in alive : i \in own \/ blocks[i] = NoBlock}
         /\ running' = {i \in alive : \/ i \in running /\ ~(FwDid("stop") /\ op.id = i)
                                      \/ FwDid("start") /\ op.id = i}
         /\ wild' = {l \in Listeners : Points(l, freed) /\ Iterates(l)}
         /\ link' = {Aged(p, noList) : p \in link}
         /\ threads' = {[t EXCEPT !.pkt = Aged(@, noList)] : t \in threads}
  /\ UNCHANGED <<cbs, refused, late>>

-----------------------------------------------------------------------------
(* The firmware and the receive thread.                                    *)

\* A packet says which block it is of and carries a value of each item; listed is how
\* many of the items the client has been told of.
FwSendData(i) ==
  LET free   == (1..MaxPackets) \ ({p.n : p \in link} \cup {t.n : t \in threads})
      active == {p.n : p \in link} \cup {t.n : t \in {u \in threads : u.pc # "refused"}}
  IN  /\ i \in running /\ free # {} /\ Cardinality(active) < MaxActive
      /\ link' = link \cup {[n |-> CHOOSE n \in free : TRUE, id |-> i,
                             items |-> IF i \in own THEN blocks[i] ELSE Outdated,
                             listed |-> IF logBlocks[i] = NoBlock THEN 0 ELSE Len(logBlocks[i])]}
      /\ UNCHANGED <<logVars, running, cbs, bound, threads, refused, wild, own, pulled, late>>

Thread(p, l, pc) ==
  [n |-> p.n, cb |-> l, pc |-> pc, pkt |-> p, at |-> 1, dataPtr |-> 0, result |-> {}]

\* The threads when p_recv has been overwritten with p.
Overwritten(p) ==
  {IF t.pc = "spawned" THEN [t EXCEPT !.pkt = p] ELSE t : t \in threads}

\* ConnectionWorker.cpp:58: p_recv may be torn, empty, or of another channel; to a thread
\* it then looks like a packet of its block or of none.
ReceiveAgain ==
  /\ \E t \in threads : \E i \in {bound[t.cb].id, IdCount} :
       /\ t.pc = "spawned"
       /\ threads' = Overwritten([t.pkt EXCEPT !.id = i, !.items = Outdated])
  /\ UNCHANGED <<logVars, running, link, cbs, bound, refused, wild, own, pulled, late>>

\* A thread for every callback of the channel; the loop waits only for that of the first,
\* and which callback is the first is left open.
Dispatch(p) ==
  /\ link' = link \ {p}
  /\ \/ cbs = {} /\ threads' = Overwritten(p)
     \/ \E first \in cbs :
          threads' = Overwritten(p) \cup
            {Thread(p, l, IF l = first THEN "spawned" ELSE "unawaited") : l \in cbs}
  /\ late' = late \cup {l \in cbs : HasThread(l, {"refused"})}
  /\ UNCHANGED <<logVars, running, cbs, bound, refused, wild, own, pulled>>

-----------------------------------------------------------------------------
(* A callback thread.                                                      *)

OwnStep == UNCHANGED <<logVars, running, link, bound, own, pulled, late>>

\* ConnectionWorker.cpp:91 copies p_recv and calls the callback; line 44 ends the thread
\* of a packet of another block.
CallFunction(t) ==
  /\ t.pc = "spawned" /\ t.cb \in cbs
  /\ \/ t.pkt.id # bound[t.cb].id /\ threads' = threads \ {t}
     \/ /\ t.pkt.id = bound[t.cb].id /\ bound[t.cb].ok
        /\ threads' = (threads \ {t}) \cup {[t EXCEPT !.pc = "decoding"]}
  /\ OwnStep /\ UNCHANGED <<cbs, refused, wild>>

TypeOf(x) == [_type |-> ItemType[x], _isParam |-> FALSE]

\* The bytes of the values before the k-th one, each with the position of its item.
BytesBefore(s, k) == UNION {{j} \X (1..size(TypeOf(s[j]))) : j \in 1..(k - 1)}

Offset(s, k) == Cardinality(BytesBefore(s, k))

\* What lines 53-74 make of the bytes at an offset of the payload: FP16, which none of them
\* names, leaves the value empty.
Decoded(p, x, offset) ==
  IF to_string(TypeOf(x)) = "FP16" THEN NoValue
  ELSE IF \E k \in DOMAIN p.items : Offset(p.items, k) = offset
       THEN p.items[CHOOSE k \in DOMAIN p.items : Offset(p.items, k) = offset]
       ELSE Garbage

\* std::map::insert keeps the value of an item that is listed twice.
Inserted(res, x, v) ==
  IF \E r \in res : r.item = x THEN res ELSE res \cup {[item |-> x, value |-> v]}

List(t) == logBlocks[bound[t.cb].id]

Decode(t, offset) ==
  /\ t.pc = "decoding"
  /\ LET x    == List(t)[t.at]
         last == t.at = Len(List(t))
     IN  threads' = (threads \ {t}) \cup
           {[t EXCEPT !.pc = IF last THEN "decoded" ELSE @, !.at = IF last THEN @ ELSE @ + 1,
                      !.dataPtr = @ + size(TypeOf(x)),
                      !.result = Inserted(@, x, Decoded(t.pkt, x, offset))]}
  /\ OwnStep /\ UNCHANGED <<cbs, refused, wild>>

\* Mutated form: every value is read at the beginning of the data.
NextItemAtStart(t) == Decode(t, 0)

\* One round of the loop of lines 50-79, on the list as it is now.
NextItem(t) == Decode(t, t.dataPtr)

\* The packet dies with the call.
Ended(t) == [n |-> t.n, id |-> IdCount, items |-> Outdated, listed |-> 0]

\* Line 80: the client's callback is called and says whether it wants more.
Call(t) ==
  /\ t.pc = "decoded" /\ t.cb \in cbs
  /\ \/ threads' = threads \ {t} /\ UNCHANGED refused
     \/ /\ threads' = (threads \ {t}) \cup {Thread(Ended(t), t.cb, "refused")}
        /\ refused' = refused \cup {t.cb}
  /\ OwnStep /\ UNCHANGED <<cbs, wild>>

\* Mutated form: the callback that refused stays registered.
EraseNot(t) ==
  /\ t.pc = "refused" /\ t.cb \in cbs /\ threads' = threads \ {t}
  /\ OwnStep /\ UNCHANGED <<cbs, refused, wild>>

\* ConnectionWorker.cpp:92-95.
Erase(t) ==
  /\ t.pc = "refused" /\ t.cb \in cbs /\ threads' = threads \ {t}
  /\ cbs' = cbs \ {t.cb}
  /\ OwnStep /\ UNCHANGED <<refused, wild>>

\* The loop's frame is gone (a second match is not waited for); the callback is erased and
\* its closure with it, which the iteration does not read; or the list is gone.
GoWild(t) ==
  /\ \/ t.pc = "unawaited"
     \/ t.cb \notin cbs /\ t.pc \in {"spawned", "decoded", "refused"}
     \/ t.pc = "spawned" /\ t.pkt.id = bound[t.cb].id /\ ~bound[t.cb].ok
  /\ wild' = {t.cb} /\ OwnStep /\ UNCHANGED <<cbs, threads, refused>>

Next ==
  /\ ~UB
  /\ \/ LogStep
     \/ \E l \in Listeners, i \in Ids : addLogCallback(l, i)
     \/ \E i \in Ids : FwSendData(i)
     \/ ReceiveAgain
     \/ \E p \in link : Dispatch(p)
     \/ \E t \in threads :
          CallFunction(t) \/ NextItem(t) \/ Call(t) \/ Erase(t) \/ GoWild(t)

Spec == Init /\ [][Next]_vars

-----------------------------------------------------------------------------
(* Properties.                                                             *)

\* What the client should be given for an item.
Shown(x) ==
  [item |-> x, value |-> IF to_string(TypeOf(x)) = "FP16" THEN NoValue ELSE x]

\* A callback is given every item that the client had listed when the packet was sent,
\* and no item of the packet with another's value, whatever appends (also one in the midst
\* of the iteration), deletions, restarts and other packets have done meanwhile.  A value is
\* made up only for an item appended since.  Nothing is claimed of a block left over from an
\* earlier session, which the library may know only the end of, of a packet that was on its
\* way when its list was freed, of one copied while recv was overwriting it, nor after a
\* reboot and a refused reset: there values are read at the wrong offset.
ValuesAreOfTheirItems ==
  faults # {"reboot", "reset"} =>
    \A t \in threads : t.pc = "decoded" /\ t.pkt.items # Outdated =>
      /\ \A k \in 1..t.pkt.listed : Shown(t.pkt.items[k]) \in t.result
      /\ \A r \in t.result : r.item \in ToSet(t.pkt.items) => r = Shown(r.item)

\* The callbacks that share the data channel with the one the worker waited for, or that a
\* thread has erased while another had them.
Crowded(l)   == HasThread(l, {"unawaited"})
ErasedInUse(l) == bound[l] # Unbound /\ l \notin cbs

\* No thread follows a dangling pointer or erases an erased callback, unless the client added
\* it for a block that is not there, or deleted or reset its block while it was in use, or
\* the callback was given a packet between its refusal and its erase, or was erased while a
\* second thread had it, or has a second callback on the channel beside it.
WildOnlyIfMisused == \A l \in wild : l \in pulled \cup late \/ ErasedInUse(l) \/ Crowded(l)
=============================================================================
