---------------------------- MODULE LogDataProofs ----------------------------
(***************************************************************************)
(* Callbacks of log blocks, for every number of callbacks, blocks, items   *)
(* and packets.  LogData does to the cache of blocks only what Log does; a *)
(* thread meets undefined behaviour only for the reasons WildOnlyIfMisused *)
(* names; and the values a callback is given are those of the items its    *)
(* list names.                                                             *)
(***************************************************************************)
EXTENDS LogData, LogProofs, FiniteSetTheorems

\* The frame of a thread.
IsThread(t) ==
  t = [n |-> t.n, cb |-> t.cb, pc |-> t.pc, pkt |-> t.pkt, at |-> t.at, dataPtr |-> t.dataPtr,
       result |-> t.result]

\* A callback that was never added has left no trace, and threads are of added callbacks.
Added ==
  /\ refused \subseteq Listeners /\ cbs \subseteq Listeners
  /\ bound \in [Listeners -> [id : Ids, ok : BOOLEAN] \cup {Unbound}]
  /\ \A l \in Listeners : bound[l] = Unbound => l \notin cbs \cup refused
  /\ \A t \in threads : IsThread(t) /\ t.cb \in Listeners /\ bound[t.cb] # Unbound

\* A pointer to a list that is gone is the client's doing, or of a callback called between
\* its refusal and its erase, or no thread will use it.
Dangling ==
  \A l \in Listeners :
    (bound[l] # Unbound /\ ~bound[l].ok) => l \in pulled \cup late \/ ~InUse(l)

\* A callback that has refused is erased, or has a thread that will erase it.
ToErase == \A l \in refused : HasThread(l, {"refused"}) \/ l \notin cbs

DInv == Added /\ Dangling /\ ToErase /\ WildOnlyIfMisused

-----------------------------------------------------------------------------
(* The cache below.                                                        *)

\* Every step of LogData is a step of Log or leaves its variables alone, so whatever is
\* proved of Log holds with callbacks and data packets around it.
LEMMA DataStepIsLogStep == [Next]_vars => [LogNext]_logVars
BY DEF Next, vars, LogStep, addLogCallback, FwSendData, ReceiveAgain, Dispatch, CallFunction,
   NextItem, Decode, Call, Erase, GoWild, OwnStep

\* LogData implements Log.
THEOREM DataImplementsLog == Spec => LogSpec
<1>1. Init => LogInit
  BY DEF Init
<1> QED BY <1>1, DataStepIsLogStep, PTL DEF Spec, LogSpec

\* With callbacks around the cache, the lists that log data is decoded with are still the
\* ends of the Crazyflie's lists.
THEOREM DataLists == Spec => []ListMatchesFirmware
BY DataImplementsLog, LogLists, PTL

\* What the cache holds for taken is taken, until the Crazyflie reboots.
THEOREM DataOccupied == Spec => []OccupiedIsOnFirmware
BY DataImplementsLog, LogOccupied, PTL

\* What the cache holds for free is free, unless a reset was refused.
THEOREM DataFree == Spec => []FreeIsNotOnFirmware
BY DataImplementsLog, LogFree, PTL

\* createLogBlock fails for want of an id only when every id has a block.
THEOREM DataFull == Spec => CreateFailsOnlyIfFull
BY DataImplementsLog, LogFull, PTL

-----------------------------------------------------------------------------
(* Threads.                                                                *)

\* A thread with another packet, or at another place.
Moved(t, pc, pkt, at, dataPtr, res) ==
  [n |-> t.n, cb |-> t.cb, pc |-> pc, pkt |-> pkt, at |-> at, dataPtr |-> dataPtr, result |-> res]

\* It is a thread of the same callback.
LEMMA ThreadMoved ==
  ASSUME NEW t, NEW pc, NEW pkt, NEW at, NEW dataPtr, NEW res
  PROVE  LET u == Moved(t, pc, pkt, at, dataPtr, res)
         IN  /\ IsThread(u) /\ u.n = t.n /\ u.cb = t.cb /\ u.pc = pc /\ u.pkt = pkt /\ u.at = at
             /\ u.dataPtr = dataPtr /\ u.result = res
BY DEF Moved, IsThread

\* A thread is as it was, but for its packet.
Repacked(u, t) ==
  /\ u.cb = t.cb /\ u.pc = t.pc /\ u.at = t.at /\ u.dataPtr = t.dataPtr /\ u.result = t.result

\* So a thread is whose packet is replaced.
LEMMA ThreadRepacked ==
  ASSUME NEW t, IsThread(t), NEW p
  PROVE  LET u == [t EXCEPT !.pkt = p] IN IsThread(u) /\ u.pkt = p /\ Repacked(u, t)
<1>1. t = [n |-> t.n, cb |-> t.cb, pc |-> t.pc, pkt |-> t.pkt, at |-> t.at, dataPtr |-> t.dataPtr,
           result |-> t.result]
  BY DEF IsThread
<1>2. [t EXCEPT !.pkt = p] = Moved(t, t.pc, p, t.at, t.dataPtr, t.result)
  BY <1>1 DEF Moved
<1> QED BY <1>2, ThreadMoved DEF Repacked

\* What a step of Log does to the threads.
LEMMA AgedThreads ==
  ASSUME Added, NEW S, threads' = {[t EXCEPT !.pkt = Aged(@, S)] : t \in threads}
  PROVE  /\ \A u \in threads' :
              /\ IsThread(u)
              /\ \E t \in threads : u.pkt = Aged(t.pkt, S) /\ Repacked(u, t)
         /\ \A t \in threads : \E u \in threads' : Repacked(u, t)
<1>1. ASSUME NEW t \in threads, NEW u, u = [t EXCEPT !.pkt = Aged(@, S)]
      PROVE  IsThread(u) /\ u.pkt = Aged(t.pkt, S) /\ Repacked(u, t)
  <2>1. IsThread(t)
    BY DEF Added
  <2>2. t = [n |-> t.n, cb |-> t.cb, pc |-> t.pc, pkt |-> t.pkt, at |-> t.at,
             dataPtr |-> t.dataPtr, result |-> t.result]
    BY <2>1 DEF IsThread
  <2>3. u = [t EXCEPT !.pkt = Aged(t.pkt, S)]
    BY <1>1, <2>2
  <2> QED BY <2>1, <2>3, ThreadRepacked
<1> QED BY <1>1

\* What a new packet in the buffer does to them.
LEMMA OverwrittenThreads ==
  ASSUME Added, NEW p
  PROVE  /\ \A u \in Overwritten(p) :
              /\ IsThread(u)
              /\ \E t \in threads :
                   Repacked(u, t) /\ (u = t \/ (t.pc = "spawned" /\ u.pkt = p))
         /\ \A t \in threads : \E u \in Overwritten(p) : Repacked(u, t)
<1>1. ASSUME NEW t \in threads, NEW u, u = IF t.pc = "spawned" THEN [t EXCEPT !.pkt = p] ELSE t
      PROVE  /\ IsThread(u) /\ Repacked(u, t)
             /\ u = t \/ (t.pc = "spawned" /\ u.pkt = p)
  <2>1. IsThread(t)
    BY DEF Added
  <2>2. CASE t.pc = "spawned"
    BY <1>1, <2>1, <2>2, ThreadRepacked
  <2>3. CASE t.pc # "spawned"
    BY <1>1, <2>1, <2>3 DEF Repacked
  <2> QED BY <2>2, <2>3
<1> QED BY <1>1 DEF Overwritten

\* A new thread.
LEMMA NewThread ==
  ASSUME NEW p, NEW l, NEW pc
  PROVE  LET u == Thread(p, l, pc)
         IN  /\ IsThread(u) /\ u.cb = l /\ u.pc = pc /\ u.pkt = p /\ u.at = 1 /\ u.dataPtr = 0
             /\ u.result = {}
BY DEF Thread, IsThread

\* The threads after a dispatch.
LEMMA DispatchThreads ==
  ASSUME NEW p, Dispatch(p)
  PROVE  /\ \A u \in threads' : \/ u \in Overwritten(p)
                                \/ \E l \in cbs, pc \in {"spawned", "unawaited"} : u = Thread(p, l, pc)
         /\ Overwritten(p) \subseteq threads'
BY DEF Dispatch

\* A thread that begins to decode.
LEMMA BeginThread ==
  ASSUME NEW t, IsThread(t)
  PROVE  [t EXCEPT !.pc = "decoding"] = Moved(t, "decoding", t.pkt, t.at, t.dataPtr, t.result)
BY DEF IsThread, Moved

\* A round of the loop.
LEMMA DecodeThreads ==
  ASSUME Added, NEW t \in threads, NextItem(t)
  PROVE  LET x    == List(t)[t.at]
             last == t.at = Len(List(t))
         IN  /\ t.pc = "decoding"
             /\ threads' = (threads \ {t}) \cup
                  {Moved(t, IF last THEN "decoded" ELSE t.pc, t.pkt,
                         IF last THEN t.at ELSE t.at + 1, t.dataPtr + size(TypeOf(x)),
                         Inserted(t.result, x, Decoded(t.pkt, x, t.dataPtr)))}
<1> DEFINE x == List(t)[t.at]
           last == t.at = Len(List(t))
           pc == IF last THEN "decoded" ELSE t.pc
           at == IF last THEN t.at ELSE t.at + 1
           d == t.dataPtr + size(TypeOf(x))
           r == Inserted(t.result, x, Decoded(t.pkt, x, t.dataPtr))
<1>1. /\ t.pc = "decoding"
      /\ threads' = (threads \ {t}) \cup
           {[t EXCEPT !.pc = pc, !.at = at, !.dataPtr = d, !.result = r]}
  BY DEF NextItem, Decode
<1>2. t = [n |-> t.n, cb |-> t.cb, pc |-> t.pc, pkt |-> t.pkt, at |-> t.at, dataPtr |-> t.dataPtr,
           result |-> t.result]
  BY DEF Added, IsThread
<1> HIDE DEF pc, at, d, r
<1>3. [t EXCEPT !.pc = pc, !.at = at, !.dataPtr = d, !.result = r] = Moved(t, pc, t.pkt, at, d, r)
  <2> DEFINE u == [t EXCEPT !.pc = pc, !.at = at, !.dataPtr = d, !.result = r]
             S == [n : {t.n}, cb : {t.cb}, pc : {t.pc, pc}, pkt : {t.pkt}, at : {t.at, at},
                   dataPtr : {t.dataPtr, d}, result : {t.result, r}]
  <2>1. t \in S
    BY <1>2
  <2>2. u \in S /\ u.pc = pc /\ u.at = at /\ u.dataPtr = d /\ u.result = r
    BY <2>1
  <2> HIDE DEF u
  <2>3. u = Moved(t, pc, t.pkt, at, d, r)
    BY <2>2 DEF Moved
  <2> QED BY <2>3 DEF u
<1>4. t.pc = "decoding" /\ threads' = (threads \ {t}) \cup {Moved(t, pc, t.pkt, at, d, r)}
  BY <1>1, <1>3
<1> QED BY <1>4 DEF pc, at, d, r

-----------------------------------------------------------------------------
(* Callbacks.                                                              *)

\* A step of Log takes lists away, and no callback.
LEMMA LogAdded == ASSUME Added, LogStep PROVE Added'
<1> DEFINE freed == {i \in Ids : logBlocks[i] # NoBlock /\ logBlocks'[i] = NoBlock}
<1>1. /\ bound' = [l \in Listeners |->
                     IF Points(l, freed) THEN [bound[l] EXCEPT !.ok = FALSE] ELSE bound[l]]
      /\ \E S : threads' = {[t EXCEPT !.pkt = Aged(@, S)] : t \in threads}
      /\ UNCHANGED <<cbs, refused>>
  BY DEF LogStep
<1> HIDE DEF freed
<1>2. \A l \in Listeners :
        /\ bound'[l] \in [id : Ids, ok : BOOLEAN] \cup {Unbound}
        /\ bound'[l] = Unbound <=> bound[l] = Unbound
  BY <1>1, DataAssumption DEF Added, Points
<1>3. \A u \in threads' : IsThread(u) /\ \E t \in threads : u.cb = t.cb
  <2>1. PICK S : threads' = {[t EXCEPT !.pkt = Aged(@, S)] : t \in threads}
    BY <1>1
  <2>2. \A u \in threads' : IsThread(u) /\ \E t \in threads : Repacked(u, t)
    BY <2>1, AgedThreads
  <2> QED BY <2>2 DEF Repacked
<1> QED BY <1>1, <1>2, <1>3 DEF Added

\* Callbacks leave a trace only when they have been added.
LEMMA AddedStep == ASSUME Added, [Next]_vars PROVE Added'
<1>1. ASSUME NEW l \in Listeners, NEW i \in Ids, addLogCallback(l, i) PROVE Added'
  <2>1. PICK ok \in BOOLEAN : ok <=> logBlocks[i] # NoBlock
    OBVIOUS
  <2>2. /\ bound' = [bound EXCEPT ![l] = [id |-> i, ok |-> ok]]
        /\ cbs' = cbs \cup {l} /\ UNCHANGED <<threads, refused>>
    BY <1>1, <2>1 DEF addLogCallback
  <2> QED BY <2>2, DataAssumption DEF Added
<1>2. ASSUME NEW p, threads' = Overwritten(p), UNCHANGED <<cbs, bound, refused>> PROVE Added'
  <2>1. \A u \in threads' : IsThread(u) /\ \E t \in threads : u.cb = t.cb
    BY <1>2, OverwrittenThreads DEF Repacked
  <2> QED BY <1>2, <2>1 DEF Added
<1>3. ASSUME NEW p, Dispatch(p) PROVE Added'
  <2>1. UNCHANGED <<cbs, bound, refused>>
    BY <1>3 DEF Dispatch
  <2>2. \A u \in threads' : IsThread(u) /\ (u.cb \in cbs \/ \E t \in threads : u.cb = t.cb)
    BY <1>3, DispatchThreads, OverwrittenThreads, NewThread DEF Repacked
  <2>3. \A u \in threads' : u.cb \in Listeners /\ bound[u.cb] # Unbound
    BY <2>2 DEF Added
  <2> QED BY <2>1, <2>2, <2>3 DEF Added
<1>4. ASSUME NEW t \in threads, UNCHANGED bound, cbs' \subseteq cbs, refused' \subseteq refused \cup {t.cb},
             \A u \in threads' : u \in threads \/ (IsThread(u) /\ u.cb = t.cb)
      PROVE  Added'
  <2>1. \A u \in threads' : IsThread(u) /\ u.cb \in Listeners /\ bound[u.cb] # Unbound
    BY <1>4 DEF Added
  <2> QED BY <1>4, <2>1 DEF Added
<1>5. ASSUME NEW t \in threads, CallFunction(t) PROVE Added'
  <2>1. \A u \in threads' : u \in threads \/ (IsThread(u) /\ u.cb = t.cb)
    BY <1>5, BeginThread, ThreadMoved DEF CallFunction, Added
  <2> QED BY <1>4, <1>5, <2>1 DEF CallFunction, OwnStep
<1>6. ASSUME NEW t \in threads, NextItem(t) PROVE Added'
  <2>1. \A u \in threads' : u \in threads \/ (IsThread(u) /\ u.cb = t.cb)
    BY <1>6, DecodeThreads, ThreadMoved
  <2> QED BY <1>4, <1>6, <2>1 DEF NextItem, Decode, OwnStep
<1>7. ASSUME NEW t \in threads, Call(t) PROVE Added'
  <2>1. \A u \in threads' : u \in threads \/ (IsThread(u) /\ u.cb = t.cb)
    BY <1>7, NewThread DEF Call
  <2>2. UNCHANGED <<bound, cbs>> /\ refused' \subseteq refused \cup {t.cb}
    BY <1>7 DEF Call, OwnStep
  <2> QED BY <1>4, <2>1, <2>2
<1>8. ASSUME NEW t \in threads, Erase(t) \/ GoWild(t) PROVE Added'
  <2>1. threads' \subseteq threads /\ cbs' \subseteq cbs /\ UNCHANGED <<bound, refused>>
    BY <1>8 DEF Erase, GoWild, OwnStep
  <2> QED BY <1>4, <2>1
<1>9. ASSUME NEW i \in Ids, FwSendData(i) PROVE Added'
  BY <1>9 DEF FwSendData, Added
<1>10. CASE ReceiveAgain
  BY <1>2, <1>10 DEF ReceiveAgain
<1>11. CASE UNCHANGED vars
  BY <1>11 DEF vars, dataVars, Added
<1> QED BY <1>1, <1>3, <1>5, <1>6, <1>7, <1>8, <1>9, <1>10, <1>11, LogAdded DEF Next

-----------------------------------------------------------------------------
(* Dangling pointers.                                                      *)

\* No callback has been added yet.
LEMMA DataInit == Init => DInv
BY DEF Init, DInv, Added, Dangling, ToErase, WildOnlyIfMisused

\* Threads that are where they were leave their callbacks in use.
LEMMA SameThreads ==
  ASSUME \A u \in threads' : \E t \in threads : Repacked(u, t),
         \A t \in threads : \E u \in threads' : Repacked(u, t)
  PROVE  \A l, pcs : HasThread(l, pcs)' <=> HasThread(l, pcs)
BY DEF HasThread, Repacked

\* A step of Log frees lists; a callback that was in use when its list went is pulled.
LEMMA LogStepDInv ==
  ASSUME DInv, Added', wild = {}, LogStep
  PROVE  DInv'
<1> DEFINE freed == {i \in Ids : logBlocks[i] # NoBlock /\ logBlocks'[i] = NoBlock}
<1>1. /\ bound' = [l \in Listeners |->
                     IF Points(l, freed) THEN [bound[l] EXCEPT !.ok = FALSE] ELSE bound[l]]
      /\ pulled' = pulled \cup {l \in Listeners : Points(l, freed) /\ InUse(l)}
      /\ wild' = {l \in Listeners : Points(l, freed) /\ Iterates(l)}
      /\ \E S : threads' = {[t EXCEPT !.pkt = Aged(@, S)] : t \in threads}
      /\ UNCHANGED <<cbs, refused, late>>
  BY DEF LogStep
<1> HIDE DEF freed
<1>2. \A l, pcs : HasThread(l, pcs)' <=> HasThread(l, pcs)
  <2>1. PICK S : threads' = {[t EXCEPT !.pkt = Aged(@, S)] : t \in threads}
    BY <1>1
  <2> QED BY <2>1, AgedThreads, SameThreads DEF DInv
<1>3. \A l \in Listeners :
        /\ bound'[l] = Unbound <=> bound[l] = Unbound
        /\ (bound'[l] # Unbound /\ ~bound'[l].ok) => ~bound[l].ok \/ Points(l, freed)
  BY <1>1, DataAssumption DEF DInv, Added, Points
<1>4. \A l : InUse(l)' <=> InUse(l)
  BY <1>1, <1>2 DEF InUse
<1>5. Dangling'
  BY <1>1, <1>3, <1>4 DEF DInv, Dangling
<1>6. ToErase'
  BY <1>1, <1>2 DEF DInv, ToErase
<1>7. WildOnlyIfMisused'
  <2>1. \A l : Iterates(l) => InUse(l)
    BY DEF Iterates, InUse, HasThread
  <2> QED BY <1>1, <2>1 DEF WildOnlyIfMisused
<1> QED BY <1>5, <1>6, <1>7 DEF DInv

\* A new callback: its list is there, or the client added it for a block that is not.
LEMMA AddDInv ==
  ASSUME DInv, Added', wild = {}, NEW l \in Listeners, NEW i \in Ids, addLogCallback(l, i)
  PROVE  DInv'
<1>1. /\ bound[l] = Unbound
      /\ bound' = [bound EXCEPT ![l] = [id |-> i, ok |-> logBlocks[i] # NoBlock]]
      /\ cbs' = cbs \cup {l} /\ pulled' = IF logBlocks[i] = NoBlock THEN pulled \cup {l} ELSE pulled
      /\ UNCHANGED <<threads, refused, wild, late>>
  BY DEF addLogCallback
<1>2. PICK ok \in BOOLEAN : ok <=> logBlocks[i] # NoBlock
  OBVIOUS
<1>3. bound' = [bound EXCEPT ![l] = [id |-> i, ok |-> ok]]
  BY <1>1, <1>2
<1>4. \A k \in Listeners : bound'[k] = IF k = l THEN [id |-> i, ok |-> ok] ELSE bound[k]
  BY <1>3 DEF DInv, Added
<1>5. \A k : (InUse(k)' <=> InUse(k)) /\ (k \in pulled => k \in pulled')
  BY <1>1 DEF InUse, HasThread
<1>6. Dangling'
  <2> SUFFICES ASSUME NEW k \in Listeners, bound'[k] # Unbound, ~bound'[k].ok
               PROVE  k \in pulled' \cup late' \/ ~InUse(k)'
    BY DEF Dangling
  <2>1. CASE k = l
    BY <1>1, <1>2, <1>4, <2>1
  <2>2. CASE k # l
    BY <1>1, <1>4, <1>5, <2>2 DEF DInv, Dangling
  <2> QED BY <2>1, <2>2
<1>7. ToErase'
  BY <1>1 DEF DInv, Added, ToErase, HasThread
<1> QED BY <1>1, <1>6, <1>7 DEF DInv, WildOnlyIfMisused

\* The packet of the threads that have not copied it yet is replaced.
LEMMA ReceiveAgainDInv ==
  ASSUME DInv, Added', wild = {}, ReceiveAgain
  PROVE  DInv'
<1>1. UNCHANGED <<cbs, bound, refused, wild, pulled, late>> /\ \E p : threads' = Overwritten(p)
  BY DEF ReceiveAgain
<1>2. \A l, pcs : HasThread(l, pcs)' <=> HasThread(l, pcs)
  BY <1>1, OverwrittenThreads, SameThreads DEF DInv
<1>3. \A l : InUse(l)' <=> InUse(l)
  BY <1>1, <1>2 DEF InUse
<1> QED BY <1>1, <1>2, <1>3 DEF DInv, Dangling, ToErase, WildOnlyIfMisused

\* A dispatch: a callback that was not in use is called late.
LEMMA DispatchDInv ==
  ASSUME DInv, Added', wild = {}, NEW p, Dispatch(p)
  PROVE  DInv'
<1>1. /\ late' = late \cup {l \in cbs : HasThread(l, {"refused"})}
      /\ UNCHANGED <<cbs, bound, refused, wild, pulled>>
  BY DEF Dispatch
<1>2. /\ \A u \in threads' : u.cb \in cbs \/ \E t \in threads : Repacked(u, t)
      /\ \A t \in threads : \E u \in threads' : Repacked(u, t)
  BY DispatchThreads, OverwrittenThreads, NewThread DEF DInv
<1>3. ASSUME NEW l, NEW pcs PROVE /\ HasThread(l, pcs) => HasThread(l, pcs)'
                                  /\ HasThread(l, pcs)' => HasThread(l, pcs) \/ l \in cbs
  BY <1>2 DEF HasThread, Repacked
<1>4. Dangling'
  <2> SUFFICES ASSUME NEW l \in Listeners, bound[l] # Unbound, ~bound[l].ok, InUse(l)'
               PROVE  l \in pulled \cup late'
    BY <1>1 DEF Dangling
  <2>1. CASE InUse(l)
    BY <1>1, <2>1 DEF DInv, Dangling
  <2>2. CASE ~InUse(l)
    <3>1. l \in refused /\ l \in cbs
      BY <1>1, <1>3, <2>2 DEF InUse
    <3> QED BY <1>1, <3>1 DEF DInv, ToErase
  <2> QED BY <2>1, <2>2
<1>5. ToErase'
  BY <1>1, <1>3 DEF DInv, ToErase
<1> QED BY <1>1, <1>4, <1>5 DEF DInv, WildOnlyIfMisused

\* A thread that goes on, or ends, without a refusal: its callback is as much in use as before.
LEMMA OwnStepDInv ==
  ASSUME DInv, Added', wild = {}, NEW t \in threads, OwnStep, UNCHANGED <<cbs, refused, wild>>,
         t.pc \in {"spawned", "decoding", "decoded"},
         \A u \in threads' :
           \/ u \in threads
           \/ u.cb = t.cb /\ t.pc \in {"spawned", "decoding"} /\ u.pc # "refused",
         threads \ {t} \subseteq threads'
  PROVE  DInv'
<1>1. UNCHANGED <<cbs, bound, refused, wild, pulled, late>>
  BY DEF OwnStep
<1>2. ASSUME NEW l PROVE /\ InUse(l)' => InUse(l)
                         /\ HasThread(l, {"refused"}) => HasThread(l, {"refused"})'
  BY <1>1 DEF InUse, HasThread
<1> QED BY <1>1, <1>2 DEF DInv, Dangling, ToErase, WildOnlyIfMisused

\* A callback returns; one that refuses has a thread to erase it.
LEMMA CallDInv ==
  ASSUME DInv, Added', wild = {}, NEW t \in threads, Call(t)
  PROVE  DInv'
<1>1. t.pc = "decoded" /\ UNCHANGED <<cbs, bound, wild, pulled, late>>
  BY DEF Call, OwnStep
<1>2. CASE threads' = threads \ {t} /\ UNCHANGED refused
  BY <1>1, <1>2, OwnStepDInv DEF Call
<1>3. CASE /\ threads' = (threads \ {t}) \cup {Thread(Ended(t), t.cb, "refused")}
           /\ refused' = refused \cup {t.cb}
  <2>1. PICK u : /\ threads' = (threads \ {t}) \cup {u}
                 /\ u.cb = t.cb /\ u.pc = "refused"
    BY <1>3, NewThread
  <2>2. ASSUME NEW l PROVE /\ InUse(l)' => InUse(l)
                           /\ HasThread(l, {"refused"}) => HasThread(l, {"refused"})'
    BY <1>1, <1>3, <2>1 DEF InUse, HasThread
  <2>3. HasThread(t.cb, {"refused"})'
    BY <2>1 DEF HasThread
  <2>4. Dangling' /\ ToErase'
    BY <1>1, <1>3, <2>2, <2>3 DEF DInv, Dangling, ToErase
  <2> QED BY <1>1, <2>4 DEF DInv, WildOnlyIfMisused
<1> QED BY <1>2, <1>3 DEF Call

\* A callback is erased.
LEMMA EraseDInv ==
  ASSUME DInv, Added', wild = {}, NEW t \in threads, Erase(t)
  PROVE  DInv'
<1>1. /\ t.pc = "refused" /\ threads' = threads \ {t} /\ cbs' = cbs \ {t.cb}
      /\ UNCHANGED <<bound, refused, wild, pulled, late>>
  BY DEF Erase, OwnStep
<1>2. \A l : InUse(l)' => InUse(l)
  BY <1>1 DEF InUse, HasThread
<1>3. ASSUME NEW l \in refused, l # t.cb, HasThread(l, {"refused"}) PROVE HasThread(l, {"refused"})'
  BY <1>1, <1>3 DEF HasThread
<1>4. Dangling' /\ ToErase'
  BY <1>1, <1>2, <1>3 DEF DInv, Dangling, ToErase
<1> QED BY <1>1, <1>4 DEF DInv, WildOnlyIfMisused

\* Undefined behaviour has one of the causes that WildOnlyIfMisused names.
LEMMA GoWildDInv ==
  ASSUME DInv, Added', wild = {}, NEW t \in threads, GoWild(t)
  PROVE  DInv'
<1>1. wild' = {t.cb} /\ UNCHANGED <<cbs, bound, refused, threads, pulled, late>>
  BY DEF GoWild, OwnStep
<1>2. Dangling' /\ ToErase'
  BY <1>1 DEF DInv, Dangling, ToErase, InUse, HasThread
<1>3. CASE t.pc = "unawaited"
  BY <1>1, <1>2, <1>3 DEF DInv, WildOnlyIfMisused, Crowded, HasThread
<1>4. CASE t.cb \notin cbs
  BY <1>1, <1>2, <1>4 DEF DInv, Added, WildOnlyIfMisused, ErasedInUse
<1>5. CASE t.pc = "spawned" /\ ~bound[t.cb].ok
  <2>1. InUse(t.cb) /\ t.cb \in Listeners /\ bound[t.cb] # Unbound
    BY <1>5 DEF DInv, Added, InUse, HasThread
  <2>2. t.cb \in pulled \cup late
    BY <1>5, <2>1 DEF DInv, Dangling
  <2> QED BY <1>1, <1>2, <2>2 DEF DInv, WildOnlyIfMisused
<1> QED BY <1>3, <1>4, <1>5 DEF GoWild

\* DInv is inductive.
LEMMA DataStepDInv == ASSUME DInv, [Next]_vars PROVE DInv'
<1>1. Added'
  BY AddedStep DEF DInv
<1>2. CASE UNCHANGED vars
  BY <1>2
  DEF vars, dataVars, DInv, Added, Dangling, InUse, HasThread, ToErase, WildOnlyIfMisused, Crowded,
      ErasedInUse
<1>3. CASE Next
  <2>1. wild = {}
    BY <1>3 DEF Next, UB
  <2>2. ASSUME NEW i \in Ids, FwSendData(i) PROVE DInv'
    BY <1>1, <2>1, <2>2 DEF FwSendData, DInv, Dangling, InUse, HasThread, ToErase, WildOnlyIfMisused
  <2>3. ASSUME NEW t \in threads, CallFunction(t) PROVE DInv'
    <3>1. /\ t.pc = "spawned" /\ OwnStep /\ UNCHANGED <<cbs, refused, wild>>
          /\ threads \ {t} \subseteq threads'
          /\ \A u \in threads' : u \in threads \/ (u.cb = t.cb /\ u.pc = "decoding")
      BY <2>3, BeginThread, ThreadMoved DEF CallFunction, DInv, Added
    <3> QED BY <1>1, <2>1, <3>1, OwnStepDInv
  <2>4. ASSUME NEW t \in threads, NextItem(t) PROVE DInv'
    <3>1. OwnStep /\ UNCHANGED <<cbs, refused, wild>>
      BY <2>4 DEF NextItem, Decode
    <3>2. PICK pc, at, d, r :
            /\ pc \in {"decoding", "decoded"} /\ t.pc = "decoding"
            /\ threads' = (threads \ {t}) \cup {Moved(t, pc, t.pkt, at, d, r)}
      BY <2>4, DecodeThreads DEF DInv
    <3>3. \A u \in threads' : u \in threads \/ (u.cb = t.cb /\ u.pc # "refused")
      BY <3>2, ThreadMoved
    <3> QED BY <1>1, <2>1, <3>1, <3>2, <3>3, OwnStepDInv
  <2> QED BY <1>1, <1>3, <2>1, <2>2, <2>3, <2>4, LogStepDInv, AddDInv, ReceiveAgainDInv,
             DispatchDInv, CallDInv, EraseDInv, GoWildDInv
          DEF Next
<1> QED BY <1>2, <1>3

\* Undefined behaviour of a callback thread has one of the causes that WildOnlyIfMisused names:
\* a list taken away by the client, a packet between refusal and erase, a second thread of the
\* callback, or a second callback on the channel (Log.cpp:41, ConnectionWorker.cpp:91-98).
THEOREM DataWildOnlyIfMisused == Spec => []WildOnlyIfMisused
<1>1. DInv => WildOnlyIfMisused
  BY DEF DInv
<1>2. DInv /\ [Next]_vars => DInv'
  BY DataStepDInv
<1> QED BY <1>1, <1>2, DataInit, PTL DEF Spec

-----------------------------------------------------------------------------
(* What a thread has decoded.                                              *)

InFlight == link \cup {t.pkt : t \in threads}

\* The frame of a packet; one that is torn or gone has no block.
IsPacket(p) ==
  /\ p = [n |-> p.n, id |-> p.id, items |-> p.items, listed |-> p.listed]
  /\ p.items \in Seq(Items) /\ p.listed \in Nat
  /\ p.items # Outdated => p.id \in Ids

\* The library lists a block from its first item to its last, once the answers are read.
Matches(i) == IF logBlocks[i] = NoBlock THEN Unread(Creates, i) ELSE Mine(i) = blocks[i]

\* So it does every block that this session made.
OwnMatches ==
  /\ own \subseteq {i \in Ids : blocks[i] # NoBlock}
  /\ ~BothFaults => \A i \in own : Matches(i)

\* A callback with a list has a list that is there and not empty.
ListsThere ==
  /\ \A i \in Ids : logBlocks[i] # <<>>
  /\ \A l \in Listeners : bound[l] # Unbound /\ bound[l].ok => logBlocks[bound[l].id] # NoBlock

Begins(s, t) == Len(s) <= Len(t) /\ \A k \in 1..Len(s) : s[k] = t[k]

\* A packet that is not out of date has the values of items that the library lists, or will
\* when it reads the answer, in their order; listed of them it has listed.
Fits(p) ==
  /\ Begins(p.items, Mine(p.id))
  /\ p.listed <= Len(p.items) /\ p.listed <= Len(logBlocks[p.id])

PacketsFit ==
  /\ \A p \in InFlight : IsPacket(p)
  /\ ~BothFaults =>
       \A p \in InFlight : p.items # Outdated /\ logBlocks[p.id] # NoBlock => Fits(p)

\* A thread begins at the first byte; it decodes a packet of its callback's block, and its
\* iterator is where a list is.
ThreadsOK ==
  \A t \in threads :
    /\ t.pc = "spawned" => t.at = 1 /\ t.dataPtr = 0 /\ t.result = {}
    /\ t.pc = "decoding" => bound[t.cb].id = t.pkt.id /\ (wild = {} => bound[t.cb].ok)

\* No item of the packet has another's value.
Honest(t) == \A r \in t.result : r.item \in ToSet(t.pkt.items) => r = Shown(r.item)

\* What a thread has decoded: the packet's values of the items before its iterator, and in
\* the end those of all that were listed.
Progress(t) ==
  LET s == logBlocks[t.pkt.id]
      u == t.pkt.items
  IN  /\ (t.pc = "decoding" /\ wild = {}) =>
           /\ t.at \in 1..Len(s) /\ t.dataPtr = Offset(s, t.at)
           /\ \A j \in 1..(t.at - 1) : j <= Len(u) => Shown(s[j]) \in t.result
           /\ Honest(t)
      /\ t.pc = "decoded" =>
           /\ \A k \in 1..t.pkt.listed : Shown(u[k]) \in t.result
           /\ Honest(t)

Decoding == ~BothFaults => \A t \in threads : t.pkt.items # Outdated => Progress(t)

VInv == Added /\ OwnMatches /\ ListsThere /\ PacketsFit /\ ThreadsOK /\ Decoding

-----------------------------------------------------------------------------
(* Offsets.                                                                *)

\* Every item of the log TOC takes up to four bytes, and at least one.
LEMMA SizeOfItem ==
  ASSUME NEW x \in Items
  PROVE  size(TypeOf(x)) \in 1..4
<1>1. ItemType[x] \in DOMAIN LOG_TYPES
  BY DataAssumption
<1> DEFINE c == ItemType[x]
<1>2. c \in Bytes /\ LogType(c) # Unknown /\ LOG_TYPES[c] = LogType(c)
  BY <1>1 DEF LOG_TYPES
<1>3. TypeOf(x)._type = c /\ ~TypeOf(x)._isParam
  BY DEF TypeOf
<1>4. to_string(TypeOf(x)) = LogType(c)
  BY <1>1, <1>2, <1>3 DEF to_string, Table
<1> HIDE DEF c
<1>5. LogType(c) \in {"uint8_t", "uint16_t", "uint32_t", "int8_t", "int16_t", "int32_t", "float",
                      "FP16"}
  BY <1>2 DEF LogType
<1> QED BY <1>4, <1>5 DEF size

\* The positions of n bytes.
LEMMA IntervalSize ==
  ASSUME NEW n \in Nat
  PROVE  IsFiniteSet(1..n) /\ Cardinality(1..n) = n
<1>1. 1 \in Int /\ n \in Int
  OBVIOUS
<1>2. /\ IsFiniteSet(1..n)
      /\ Cardinality(1..n) = (IF 1 > n THEN 0 ELSE n - 1 + 1)
  BY <1>1, FS_Interval
<1> QED BY <1>2

\* An offset is a number of bytes.
LEMMA BytesFinite ==
  ASSUME NEW s \in Seq(Items), NEW k \in 1..(Len(s) + 1)
  PROVE  IsFiniteSet(BytesBefore(s, k)) /\ Offset(s, k) \in Nat
<1>1. Len(s) \in Nat /\ k - 1 \in Nat /\ \A j \in 1..(k - 1) : s[j] \in Items
  BY ElementOfSeq, LenProperties
<1>2. BytesBefore(s, k) \subseteq (1..(k - 1)) \X (1..4)
  BY <1>1, SizeOfItem DEF BytesBefore
<1>3. IsFiniteSet((1..(k - 1)) \X (1..4))
  <2>1. IsFiniteSet(1..(k - 1)) /\ IsFiniteSet(1..4)
    BY <1>1, IntervalSize
  <2> QED BY <2>1, FS_Product
<1>4. IsFiniteSet(BytesBefore(s, k))
  BY <1>2, <1>3, FS_Subset
<1> QED BY <1>4, FS_CardinalityType DEF Offset

\* The first value is at the beginning, and each value begins where the one before ends.
LEMMA OffsetNext ==
  ASSUME NEW s \in Seq(Items)
  PROVE  /\ Offset(s, 1) = 0
         /\ \A k \in 1..Len(s) : Offset(s, k + 1) = Offset(s, k) + size(TypeOf(s[k]))
<1>1. Offset(s, 1) = 0
  <2>1. BytesBefore(s, 1) = {}
    BY DEF BytesBefore
  <2> QED BY <2>1, FS_EmptySet DEF Offset
<1>2. ASSUME NEW k \in 1..Len(s)
      PROVE  Offset(s, k + 1) = Offset(s, k) + size(TypeOf(s[k]))
  <2> DEFINE A == BytesBefore(s, k)
             n == size(TypeOf(s[k]))
             B == {k} \X (1..n)
  <2>1. /\ Len(s) \in Nat /\ k \in Nat /\ k \in 1..(Len(s) + 1) /\ s[k] \in Items /\ n \in Nat
        /\ \A j \in 1..Len(s) : s[j] \in Items
    BY ElementOfSeq, LenProperties, SizeOfItem
  <2>2. BytesBefore(s, k + 1) = A \cup B
    <3>1. 1..((k + 1) - 1) = (1..(k - 1)) \cup {k}
      BY <2>1
    <3> QED BY <3>1 DEF BytesBefore
  <2>3. A \cap B = {}
    BY <2>1 DEF BytesBefore
  <2>4. IsFiniteSet(A) /\ Cardinality(A) \in Nat
    BY <2>1, BytesFinite DEF Offset
  <2> HIDE DEF n
  <2>5. IsFiniteSet(B) /\ Cardinality(B) = n
    <3>1. IsFiniteSet({k}) /\ Cardinality({k}) = 1
      BY FS_Singleton
    <3>2. IsFiniteSet(1..n) /\ Cardinality(1..n) = n
      BY <2>1, IntervalSize
    <3>3. IsFiniteSet(B) /\ Cardinality(B) = 1 * n
      BY <3>1, <3>2, FS_Product
    <3> QED BY <2>1, <3>3
  <2> HIDE DEF A, B
  <2>6. Cardinality(A \cup B) = Cardinality(A) + Cardinality(B) - Cardinality({})
    BY <2>3, <2>4, <2>5, FS_Union
  <2>7. Cardinality(A \cup B) = Cardinality(A) + n
    BY <2>1, <2>4, <2>5, <2>6, FS_EmptySet
  <2> QED BY <2>2, <2>7 DEF Offset, A, n
<1> QED BY <1>1, <1>2

\* No two values of a packet begin at one offset.
LEMMA OffsetInjective ==
  ASSUME NEW s \in Seq(Items), NEW i \in 1..Len(s), NEW k \in 1..Len(s), i < k
  PROVE  Offset(s, i) # Offset(s, k)
<1> DEFINE A == BytesBefore(s, i)
           B == BytesBefore(s, k)
<1>1. Len(s) \in Nat /\ i \in 1..(Len(s) + 1) /\ k \in 1..(Len(s) + 1) /\ s[i] \in Items
  BY ElementOfSeq, LenProperties
<1>2. A \subseteq B
  BY <1>1 DEF BytesBefore
<1>3. <<i, 1>> \in B /\ <<i, 1>> \notin A
  <2>1. 1 \in 1..size(TypeOf(s[i])) /\ i \in 1..(k - 1) /\ i \notin 1..(i - 1)
    BY <1>1, SizeOfItem
  <2> QED BY <2>1 DEF BytesBefore
<1>4. IsFiniteSet(B)
  BY <1>1, BytesFinite
<1> HIDE DEF A, B
<1>5. Cardinality(B) # Cardinality(A)
  BY <1>2, <1>3, <1>4, FS_Subset
<1> QED BY <1>5 DEF Offset, A, B

\* Where a packet and a list agree, decoding at an item's place gives the item's value.
LEMMA DecodedIsShown ==
  ASSUME NEW p, p.items \in Seq(Items), NEW s \in Seq(Items), NEW k \in 1..Len(s),
         k <= Len(p.items), \A j \in 1..k : p.items[j] = s[j]
  PROVE  [item |-> s[k], value |-> Decoded(p, s[k], Offset(s, k))] = Shown(s[k])
<1> DEFINE u == p.items
<1>1. u \in Seq(Items)
  OBVIOUS
<1>2. /\ Len(s) \in Nat /\ Len(u) \in Nat /\ DOMAIN u = 1..Len(u) /\ k \in 1..Len(u)
      /\ u[k] = s[k]
  BY <1>1, LenProperties
<1>3. Offset(u, k) = Offset(s, k)
  <2>1. \A j \in 1..(k - 1) : u[j] = s[j]
    BY <1>2
  <2>2. BytesBefore(u, k) = BytesBefore(s, k)
    BY <2>1 DEF BytesBefore
  <2> QED BY <2>2 DEF Offset
<1>4. \A j \in 1..Len(u) : Offset(u, j) = Offset(u, k) => j = k
  <2> SUFFICES ASSUME NEW j \in 1..Len(u), j # k PROVE Offset(u, j) # Offset(u, k)
    OBVIOUS
  <2>1. j < k \/ k < j
    BY <1>2
  <2> QED BY <1>1, <1>2, <2>1, OffsetInjective
<1> HIDE DEF u
<1>5. to_string(TypeOf(s[k])) # "FP16" => Decoded(p, s[k], Offset(s, k)) = s[k]
  <2>1. (CHOOSE j \in DOMAIN u : Offset(u, j) = Offset(s, k)) = k
    BY <1>2, <1>3, <1>4
  <2>2. \E j \in DOMAIN u : Offset(u, j) = Offset(s, k)
    BY <1>2, <1>3
  <2>3. to_string(TypeOf(s[k])) # "FP16" =>
          Decoded(p, s[k], Offset(s, k)) = u[CHOOSE j \in DOMAIN u : Offset(u, j) = Offset(s, k)]
    BY <2>2 DEF Decoded, u
  <2> QED BY <1>2, <2>1, <2>3
<1>6. to_string(TypeOf(s[k])) = "FP16" => Decoded(p, s[k], Offset(s, k)) = NoValue
  BY DEF Decoded
<1> QED BY <1>5, <1>6 DEF Shown

-----------------------------------------------------------------------------
(* Steps of Log.                                                           *)

\* The library goes on listing the blocks of this session as the Crazyflie has them.
LEMMA OwnMatchesLog ==
  ASSUME IInv, OwnMatches, LogStep
  PROVE  OwnMatches'
<1>1. LogNext /\ own' = {i \in Ids : blocks'[i] # NoBlock /\ (i \in own \/ blocks[i] = NoBlock)}
  BY DEF LogStep
<1>2. own' \subseteq {i \in Ids : blocks'[i] # NoBlock}
  BY <1>1
<1> SUFFICES ASSUME ~BothFaults' PROVE (\A i \in own : Matches(i))'
  BY <1>2 DEF OwnMatches
<1> SUFFICES ASSUME NEW i \in own' PROVE Matches(i)'
  OBVIOUS
<1>3. i \in Ids /\ blocks'[i] # NoBlock /\ (i \in own \/ blocks[i] = NoBlock)
  BY <1>1
<1>4. ~BothFaults /\ (i \in own => Matches(i))
  BY <1>1, FaultsGrow DEF OwnMatches
<1>5. logBlocks \in [Ids -> BlockLists] /\ blocks \in [Ids -> BlockLists]
  BY DEF IInv, LogTypeOK
<1>6. CASE Loses
  <2>1. blocks'[i] = blocks[i] /\ i \in own /\ logBlocks'[i] = logBlocks[i]
    BY <1>3, <1>6 DEF Loses
  <2>2. /\ ~Unread(Creates, i) /\ ~Unread({"append"}, i)
        /\ ~Unread(Creates, i)' /\ ~Unread({"append"}, i)'
    BY <1>3, <1>6 DEF Loses, Quiet, Unread, Creates
  <2> QED BY <1>4, <2>1, <2>2 DEF Matches, Mine
<1>7. CASE Created
  <2>1. CASE i = op.id
    <3>1. logBlocks[i] = NoBlock
      BY <1>4, <1>7, <2>1
      DEF Created, Made, IInv, Backed, Asked, Unread, Creates, BothFaults, LogTypeOK
    <3> QED BY <1>7, <2>1, <3>1 DEF Created, Made, Unread, Matches
  <2>2. CASE i # op.id
    <3>1. Matches(i) /\ blocks'[i] = blocks[i] /\ logBlocks'[i] = logBlocks[i]
      BY <1>3, <1>4, <1>7, <2>2 DEF Created, Made
    <3>2. ~Unread(Creates, i) /\ ~Unread({"append"}, i) /\ ~Unread({"append"}, i)'
      BY <1>7, <2>2 DEF Created, Made, Unread, Creates
    <3> QED BY <3>1, <3>2 DEF Matches, Mine
  <2> QED BY <2>1, <2>2
<1>8. CASE Extended
  <2>1. Matches(i) /\ logBlocks'[i] = logBlocks[i] /\ msg = "sent" /\ logBlocks[i] # NoBlock
    BY <1>3, <1>4, <1>8 DEF Extended, Made, Unread, Matches
  <2>2. Mine(i) = logBlocks[i] /\ logBlocks[i] = blocks[i]
    BY <2>1 DEF Mine, Unread, Matches
  <2>3. CASE i = op.id
    <3>1. Mine(i)' = Append(logBlocks[i], op.item)
      BY <1>8, <2>1, <2>3 DEF Extended, Made, Mine, Unread, Listed
    <3> QED BY <1>8, <2>1, <2>2, <2>3, <3>1 DEF Extended, Matches
  <2>4. CASE i # op.id
    <3>1. Mine(i)' = logBlocks'[i] /\ blocks'[i] = blocks[i]
      BY <1>3, <1>8, <2>4 DEF Extended, Made, Mine, Unread
    <3> QED BY <2>1, <2>2, <3>1 DEF Matches
  <2> QED BY <2>3, <2>4
<1>9. CASE ReadCreated
  <2>1. Matches(i) /\ blocks'[i] = blocks[i] /\ ~Unread({"append"}, i)
    BY <1>3, <1>4, <1>9 DEF ReadCreated, Read, Unread, Creates
  <2>2. Mine(i)' = logBlocks'[i] /\ Mine(i) = logBlocks[i]
    BY <1>9, <2>1 DEF ReadCreated, Read, Mine, Unread
  <2>3. CASE i = op.id
    <3>1. logBlocks[i] # NoBlock \/ blocks[i] = <<op.item>>
      BY <1>3, <1>9, <2>1, <2>3 DEF ReadCreated, Read, IInv, Served
    <3> QED BY <1>3, <1>9, <2>1, <2>2, <2>3, <3>1, LogAssumption DEF ReadCreated, Matches
  <2>4. CASE i # op.id
    BY <1>3, <1>9, <2>1, <2>2, <2>4 DEF ReadCreated, Read, Unread, Matches, Creates
  <2> QED BY <2>3, <2>4
<1>10. CASE ReadExtended
  <2>1. Matches(i) /\ blocks'[i] = blocks[i] /\ logBlocks[i] # NoBlock
    BY <1>3, <1>4, <1>10 DEF ReadExtended, Read, Unread, Creates, Matches
  <2>2. Mine(i)' = logBlocks'[i] /\ Mine(i) = logBlocks'[i]
    BY <1>3, <1>10 DEF ReadExtended, Read, Mine, Unread
  <2> QED BY <1>3, <2>1, <2>2 DEF Matches
<1>11. CASE Reboot
  BY <1>3, <1>11 DEF Reboot
<1> QED BY <1>1, <1>6, <1>7, <1>8, <1>9, <1>10, <1>11, StepKinds

\* Lists grow by an item, or go with the pointers to them.
LEMMA ListsThereLog ==
  ASSUME IInv, Added, ListsThere, wild = {}, LogStep
  PROVE  ListsThere'
<1> DEFINE freed == {i \in Ids : logBlocks[i] # NoBlock /\ logBlocks'[i] = NoBlock}
<1>1. /\ LogNext
      /\ bound' = [l \in Listeners |->
                     IF Points(l, freed) THEN [bound[l] EXCEPT !.ok = FALSE] ELSE bound[l]]
  BY DEF LogStep
<1>2. \A i \in Ids : logBlocks'[i] # <<>>
  <2> SUFFICES ASSUME NEW i \in Ids PROVE logBlocks'[i] # <<>>
    OBVIOUS
  <2>0. logBlocks[i] # <<>> /\ NoBlock # <<>>
    BY LogAssumption, EmptySeq DEF ListsThere
  <2>1. CASE Loses
    BY <2>0, <2>1 DEF Loses
  <2>2. CASE Created \/ Extended \/ Reboot
    BY <2>0, <2>2 DEF Created, Extended, Made, Reboot, libVars
  <2>3. CASE ReadCreated
    BY <2>0, <2>3 DEF ReadCreated, Read
  <2>4. CASE ReadExtended
    <3>1. op.id \in Ids /\ op.item \in Items
      BY <2>4 DEF ReadExtended, Read
    <3> DEFINE old == IF logBlocks[op.id] = NoBlock THEN <<>> ELSE logBlocks[op.id]
    <3>2. old \in Seq(Items)
      BY <3>1, EmptySeq DEF IInv, LogTypeOK, BlockLists
    <3>3. Listed(op.id, op.item) = Append(old, op.item)
      BY DEF Listed
    <3> HIDE DEF old
    <3>4. Append(old, op.item) # <<>>
      BY <3>1, <3>2, AppendProperties
    <3> QED BY <2>0, <2>4, <3>3, <3>4 DEF ReadExtended, Read
  <2> QED BY <1>1, <2>1, <2>2, <2>3, <2>4, StepKinds
<1>3. \A l \in Listeners : bound'[l] # Unbound /\ bound'[l].ok => logBlocks'[bound'[l].id] # NoBlock
  <2> SUFFICES ASSUME NEW l \in Listeners, bound'[l] # Unbound, bound'[l].ok
               PROVE  logBlocks'[bound'[l].id] # NoBlock
    OBVIOUS
  <2>1. bound[l] \in [id : Ids, ok : BOOLEAN] \cup {Unbound}
    BY DEF Added
  <2>2. ~Points(l, freed)
    BY <1>1, <2>1 DEF Points
  <2>3. bound'[l] = bound[l] /\ bound[l].id \in Ids
    BY <1>1, <2>1, <2>2
  <2> QED BY <2>2, <2>3 DEF ListsThere, Points
<1> QED BY <1>2, <1>3 DEF ListsThere

\* A list that is there before and after a step has grown, if it has changed, at its end; so
\* has the list that the library will have when it has read the answer.
LEMMA ListsGrow ==
  ASSUME IInv, LogNext, NEW i \in Ids, logBlocks[i] # NoBlock, logBlocks'[i] # NoBlock
  PROVE  /\ logBlocks[i] \in Seq(Items) /\ logBlocks'[i] \in Seq(Items)
         /\ Mine(i) \in Seq(Items) /\ Mine(i)' \in Seq(Items)
         /\ Begins(logBlocks[i], logBlocks'[i]) /\ Begins(Mine(i), Mine(i)')
<1> DEFINE s == logBlocks[i]
<1>1. s \in Seq(Items)
  BY DEF IInv, LogTypeOK, BlockLists
<1>2. \A x \in Items : /\ Append(s, x) \in Seq(Items) /\ Begins(s, Append(s, x))
                       /\ Listed(i, x) = Append(s, x)
  BY <1>1, AppendProperties, LenProperties DEF Begins, Listed
<1>3. \A u \in Seq(Items) : Begins(u, u)
  BY LenProperties DEF Begins
<1> HIDE DEF s
<1>4. CASE Loses
  <2>1. logBlocks'[i] = s
    BY <1>4 DEF Loses, s
  <2>2. Mine(i) = s
    BY <1>4 DEF Loses, Quiet, Mine, Unread, s
  <2>3. Mine(i)' = s
    BY <1>4, <2>1 DEF Loses, Quiet, Mine, Unread
  <2> QED BY <1>1, <1>3, <2>1, <2>2, <2>3 DEF s
<1>5. CASE Created
  <2>1. logBlocks'[i] = s /\ Mine(i) = s
    BY <1>5 DEF Created, Made, Mine, Unread, s
  <2>2. Mine(i)' = s
    BY <1>5, <2>1 DEF Created, Made, Mine, Unread, Creates
  <2> QED BY <1>1, <1>3, <2>1, <2>2 DEF s
<1>6. CASE Extended
  <2>1. logBlocks'[i] = s /\ Mine(i) = s /\ op.item \in Items
    BY <1>6 DEF Extended, Made, Mine, Unread, s
  <2>2. Mine(i)' \in {s, Listed(i, op.item)}
    BY <1>6, <2>1 DEF Extended, Made, Mine, Listed, s
  <2> QED BY <1>1, <1>2, <1>3, <2>1, <2>2 DEF s
<1>7. CASE ReadCreated
  <2>1. logBlocks'[i] = s
    BY <1>7 DEF ReadCreated, Read, s
  <2>2. Mine(i) = s
    BY <1>7 DEF ReadCreated, Read, Mine, Unread, Creates, s
  <2>3. Mine(i)' = s
    BY <1>7, <2>1 DEF ReadCreated, Read, Mine, Unread
  <2> QED BY <1>1, <1>3, <2>1, <2>2, <2>3 DEF s
<1>8. CASE ReadExtended
  <2>1. op.item \in Items /\ Mine(i)' = logBlocks'[i] /\ Mine(i) = logBlocks'[i]
    BY <1>8 DEF ReadExtended, Read, Mine, Unread
  <2>2. logBlocks'[i] \in {s, Listed(i, op.item)}
    BY <1>8 DEF ReadExtended, Read, s
  <2> QED BY <1>1, <1>2, <1>3, <2>1, <2>2 DEF s
<1>9. CASE Reboot
  <2>1. logBlocks'[i] = s /\ Mine(i)' = Mine(i)
    BY <1>9 DEF Reboot, libVars, Mine, Unread, Listed, s
  <2>2. Mine(i) \in {s, Listed(i, op.item)} /\ (Mine(i) = Listed(i, op.item) => op.item \in Items \/ Mine(i) = s)
    BY DEF Mine, Unread, IInv, LogTypeOK, Asked, s
  <2> QED BY <1>1, <1>2, <1>3, <2>1, <2>2 DEF s
<1> QED BY <1>4, <1>5, <1>6, <1>7, <1>8, <1>9, StepKinds

\* What begins with a list begins with what that begins with.
LEMMA BeginsTrans ==
  ASSUME NEW s \in Seq(Items), NEW t \in Seq(Items), NEW u \in Seq(Items), Begins(s, t), Begins(t, u)
  PROVE  Begins(s, u)
BY LenProperties DEF Begins

\* Lists that agree up to a place have it at one offset.
LEMMA SameOffset ==
  ASSUME NEW s, NEW t, NEW k \in Nat, \A j \in 1..(k - 1) : s[j] = t[j]
  PROVE  Offset(s, k) = Offset(t, k)
<1>1. BytesBefore(s, k) = BytesBefore(t, k)
  BY DEF BytesBefore
<1> QED BY <1>1 DEF Offset

\* The packets after a step of Log: those that are not out of date are what they were.
LEMMA AgedPackets ==
  ASSUME NEW p, IsPacket(p), NEW S
  PROVE  /\ IsPacket(Aged(p, S)) /\ Aged(p, S).id = p.id
         /\ Aged(p, S).items # Outdated => Aged(p, S) = p /\ p.id \in Ids \ S
<1>1. CASE p.id \notin S
  BY <1>1 DEF Aged, IsPacket
<1>2. CASE p.id \in S
  <2>1. Outdated \in Seq(Items)
    BY EmptySeq DEF Outdated
  <2> DEFINE q == [n |-> p.n, id |-> p.id, items |-> Outdated, listed |-> p.listed]
  <2>2. IsPacket(q) /\ q.id = p.id /\ q.items = Outdated
    BY <2>1 DEF IsPacket
  <2>3. Aged(p, S) = q
    BY <1>2 DEF Aged, IsPacket
  <2> HIDE DEF q
  <2> QED BY <2>2, <2>3
<1> QED BY <1>1, <1>2

\* What a step of Log leaves of a thread that decodes, or has decoded, a packet whose list is
\* there before and after it.
LEMMA ProgressLog ==
  ASSUME IInv, LogNext, NEW t, NEW u, u.pkt = t.pkt, Repacked(u, t), wild = {}, t.pkt.id \in Ids,
         logBlocks[t.pkt.id] # NoBlock, logBlocks'[t.pkt.id] # NoBlock, Progress(t)
  PROVE  Progress(u)'
<1> DEFINE s == logBlocks[t.pkt.id]
           v == logBlocks'[t.pkt.id]
<1>1. s \in Seq(Items) /\ v \in Seq(Items) /\ Begins(s, v)
  BY ListsGrow
<1>2. Len(s) \in Nat /\ Len(v) \in Nat
  BY <1>1, LenProperties
<1>3. ASSUME u.pc = "decoding", wild' = {}
      PROVE  /\ u.at \in 1..Len(v) /\ u.dataPtr = Offset(v, u.at)
             /\ \A j \in 1..(u.at - 1) : j <= Len(u.pkt.items) => Shown(v[j]) \in u.result
             /\ Honest(u)
  <2>1. /\ t.at \in 1..Len(s) /\ t.dataPtr = Offset(s, t.at)
        /\ \A j \in 1..(t.at - 1) : j <= Len(t.pkt.items) => Shown(s[j]) \in t.result
        /\ Honest(t)
    BY <1>3 DEF Progress, Repacked
  <2>2. t.at \in Nat /\ t.at \in 1..Len(v) /\ \A j \in 1..(t.at - 1) : s[j] = v[j]
    BY <1>1, <1>2, <2>1 DEF Begins
  <2> HIDE DEF s, v
  <2>3. Offset(s, t.at) = Offset(v, t.at)
    BY <2>2, SameOffset
  <2>4. \A j \in 1..(t.at - 1) : Shown(s[j]) = Shown(v[j])
    BY <2>2
  <2> QED BY <2>1, <2>2, <2>3, <2>4 DEF Repacked, Honest
<1>4. ASSUME u.pc = "decoded"
      PROVE  (\A k \in 1..u.pkt.listed : Shown(u.pkt.items[k]) \in u.result) /\ Honest(u)
  BY <1>4 DEF Progress, Repacked, Honest
<1> QED BY <1>3, <1>4 DEF Progress, Honest

\* A step of Log changes no packet and no value that is still of the list it is decoded
\* with, and ends the program if it has freed the list of a thread that decodes.
LEMMA ThreadsLog ==
  ASSUME IInv, Added, PacketsFit, ThreadsOK, Decoding, wild = {}, LogStep
  PROVE  PacketsFit' /\ ThreadsOK' /\ Decoding'
<1> DEFINE freed  == {i \in Ids : logBlocks[i] # NoBlock /\ logBlocks'[i] = NoBlock}
           noList == {i \in Ids : NoBlock \in {logBlocks[i], logBlocks'[i]}}
<1>1. /\ LogNext
      /\ bound' = [l \in Listeners |->
                     IF Points(l, freed) THEN [bound[l] EXCEPT !.ok = FALSE] ELSE bound[l]]
      /\ wild' = {l \in Listeners : Points(l, freed) /\ Iterates(l)}
  BY DEF LogStep
<1>2. PICK S : S = noList
  OBVIOUS
<1>3. /\ link' = {Aged(p, S) : p \in link}
      /\ threads' = {[t EXCEPT !.pkt = Aged(@, S)] : t \in threads}
  BY <1>2 DEF LogStep
<1>4. \A i \in Ids \ S : logBlocks[i] # NoBlock /\ logBlocks'[i] # NoBlock
  BY <1>2
<1> HIDE DEF freed, noList
<1>5. \A u \in threads' : \E t \in threads : u.pkt = Aged(t.pkt, S) /\ Repacked(u, t)
  BY <1>3, AgedThreads
<1>6. \A q \in InFlight' : \E p \in InFlight : q = Aged(p, S)
  BY <1>3, <1>5 DEF InFlight
<1>7. \A t \in threads : IsPacket(t.pkt) /\ t.pkt \in InFlight
  BY DEF PacketsFit, InFlight
<1>8. BothFaults => BothFaults'
  BY <1>1, FaultsGrow
<1>9. PacketsFit'
  <2>1. \A q \in InFlight' : IsPacket(q)
    BY <1>6, AgedPackets DEF PacketsFit
  <2>2. ASSUME ~BothFaults', NEW p \in InFlight', p.items # Outdated, logBlocks'[p.id] # NoBlock
        PROVE  Fits(p)'
    <3>1. p \in InFlight /\ IsPacket(p) /\ p.id \in Ids \ S
      BY <1>6, <2>2, AgedPackets DEF PacketsFit
    <3>2. Fits(p) /\ logBlocks[p.id] # NoBlock
      BY <1>4, <1>8, <2>2, <3>1 DEF PacketsFit
    <3>3. /\ logBlocks[p.id] \in Seq(Items) /\ logBlocks'[p.id] \in Seq(Items)
          /\ Mine(p.id) \in Seq(Items) /\ Mine(p.id)' \in Seq(Items)
          /\ Begins(logBlocks[p.id], logBlocks'[p.id]) /\ Begins(Mine(p.id), Mine(p.id)')
      BY <1>1, <2>2, <3>1, <3>2, ListsGrow
    <3>4. Begins(p.items, Mine(p.id)')
      BY <3>1, <3>2, <3>3, BeginsTrans DEF Fits, IsPacket
    <3>5. p.listed <= Len(logBlocks'[p.id])
      BY <3>1, <3>2, <3>3, LenProperties DEF Fits, IsPacket, Begins
    <3> QED BY <3>2, <3>4, <3>5 DEF Fits
  <2> QED BY <2>1, <2>2 DEF PacketsFit
<1>10. ThreadsOK'
  <2> SUFFICES ASSUME NEW t \in threads, NEW u, u.pkt = Aged(t.pkt, S), Repacked(u, t)
               PROVE  /\ u.pc = "spawned" => u.at = 1 /\ u.dataPtr = 0 /\ u.result = {}
                      /\ u.pc = "decoding" =>
                           bound'[u.cb].id = u.pkt.id /\ (wild' = {} => bound'[u.cb].ok)
    BY <1>5 DEF ThreadsOK
  <2>1. t.cb \in Listeners /\ bound[t.cb] \in [id : Ids, ok : BOOLEAN]
    BY DEF Added
  <2>2. bound'[t.cb].id = bound[t.cb].id /\ u.pkt.id = t.pkt.id
    BY <1>1, <1>7, <2>1, AgedPackets
  <2>3. ASSUME t.pc = "decoding", wild' = {} PROVE bound'[t.cb].ok
    <3>1. bound[t.cb].ok /\ Iterates(t.cb)
      BY <2>3 DEF ThreadsOK, Iterates, HasThread
    <3>2. ~Points(t.cb, freed)
      BY <1>1, <2>1, <2>3, <3>1
    <3> QED BY <1>1, <2>1, <3>1, <3>2
  <2> QED BY <2>2, <2>3 DEF ThreadsOK, Repacked
<1>11. Decoding'
  <2> SUFFICES ASSUME ~BothFaults', NEW u \in threads', u.pkt.items # Outdated PROVE Progress(u)'
    BY DEF Decoding
  <2>0. PICK t \in threads : u.pkt = Aged(t.pkt, S) /\ Repacked(u, t)
    BY <1>5
  <2>1. u.pkt = t.pkt /\ t.pkt.id \in Ids \ S
    BY <1>7, <2>0, AgedPackets
  <2>2. Progress(t)
    BY <1>8, <2>1 DEF Decoding
  <2> QED BY <1>1, <1>4, <2>0, <2>1, <2>2, ProgressLog
<1> QED BY <1>9, <1>10, <1>11

-----------------------------------------------------------------------------
(* The other steps.                                                        *)

\* A step that touches no list.
Unmoved == UNCHANGED <<logBlocks, blocks, op, msg, code, faults, own>>

\* It leaves the blocks of this session listed as they were.
LEMMA UnmovedOwn == ASSUME OwnMatches, Unmoved PROVE OwnMatches'
BY DEF OwnMatches, Unmoved, Matches, Mine, Listed, Unread, BothFaults

\* So it leaves the lists of the callbacks.
LEMMA UnmovedLists == ASSUME ListsThere, Unmoved, UNCHANGED bound PROVE ListsThere'
BY DEF ListsThere, Unmoved

\* It leaves the packets as they fit their lists; those that are added say nothing.
LEMMA UnmovedPackets ==
  ASSUME PacketsFit, Unmoved,
         \A p \in InFlight' : p \in InFlight \/ (IsPacket(p) /\ p.items = Outdated)
  PROVE  PacketsFit'
<1>1. ASSUME NEW p, Fits(p) PROVE Fits(p)'
  BY <1>1 DEF Fits, Unmoved, Mine, Listed, Unread
<1>2. logBlocks' = logBlocks /\ BothFaults' = BothFaults
  BY DEF Unmoved, BothFaults
<1>3. \A p \in InFlight' : IsPacket(p)
  BY DEF PacketsFit
<1>4. ASSUME ~BothFaults', NEW p \in InFlight', p.items # Outdated, logBlocks'[p.id] # NoBlock
      PROVE  Fits(p)'
  BY <1>1, <1>2, <1>4 DEF PacketsFit
<1> QED BY <1>3, <1>4 DEF PacketsFit

\* It leaves what a thread has decoded.
LEMMA UnmovedProgress ==
  ASSUME NEW t, Progress(t), Unmoved, UNCHANGED wild
  PROVE  Progress(t)'
BY DEF Progress, Unmoved

\* A thread that has not begun to decode has nothing to show.
LEMMA NoProgress ==
  ASSUME NEW u, u.pc \notin {"decoding", "decoded"}
  PROVE  Progress(u)'
BY DEF Progress

\* The threads that a step leaves alone go on as they were.
LEMMA KeptThreads ==
  ASSUME ThreadsOK, Decoding, Unmoved, UNCHANGED wild, Added, \A l : bound[l] # Unbound => bound'[l] = bound[l]
  PROVE  /\ \A t \in threads :
              /\ t.pc = "spawned" => t.at = 1 /\ t.dataPtr = 0 /\ t.result = {}
              /\ t.pc = "decoding" => bound'[t.cb].id = t.pkt.id /\ (wild' = {} => bound'[t.cb].ok)
         /\ ~BothFaults' => \A t \in threads : t.pkt.items # Outdated => Progress(t)'
<1>1. ASSUME NEW t \in threads
      PROVE  /\ t.pc = "spawned" => t.at = 1 /\ t.dataPtr = 0 /\ t.result = {}
             /\ t.pc = "decoding" => bound'[t.cb].id = t.pkt.id /\ (wild' = {} => bound'[t.cb].ok)
  BY DEF ThreadsOK, Added
<1>2. ASSUME ~BothFaults', NEW t \in threads, t.pkt.items # Outdated PROVE Progress(t)'
  <2>1. Progress(t)
    BY <1>2 DEF Decoding, Unmoved, BothFaults
  <2> QED BY <2>1, UnmovedProgress
<1> QED BY <1>1, <1>2

\* A new callback has no thread yet.
LEMMA AddValues ==
  ASSUME VInv, wild = {}, NEW l \in Listeners, NEW i \in Ids, addLogCallback(l, i)
  PROVE  OwnMatches' /\ ListsThere' /\ PacketsFit' /\ ThreadsOK' /\ Decoding'
<1>1. PICK ok \in BOOLEAN : ok <=> logBlocks[i] # NoBlock
  OBVIOUS
<1>2. /\ bound[l] = Unbound /\ bound' = [bound EXCEPT ![l] = [id |-> i, ok |-> ok]]
      /\ Unmoved /\ UNCHANGED <<link, threads, wild>>
  BY <1>1 DEF addLogCallback, logVars, libVars, fwVars, Unmoved
<1>3. \A k \in Listeners : bound'[k] = IF k = l THEN [id |-> i, ok |-> ok] ELSE bound[k]
  BY <1>2 DEF VInv, Added
<1>4. ListsThere'
  BY <1>1, <1>2, <1>3 DEF VInv, ListsThere, Unmoved
<1>5. PacketsFit'
  BY <1>2, UnmovedPackets DEF VInv, InFlight
<1>6. ThreadsOK'
  BY <1>2, <1>3 DEF VInv, Added, ThreadsOK
<1>7. Decoding'
  <2> SUFFICES ASSUME ~BothFaults', NEW t \in threads', t.pkt.items # Outdated PROVE Progress(t)'
    BY DEF Decoding
  <2>1. Progress(t)
    BY <1>2 DEF VInv, Decoding, Unmoved, BothFaults
  <2> QED BY <1>2, <2>1, UnmovedProgress
<1> QED BY <1>2, <1>4, <1>5, <1>6, <1>7, UnmovedOwn DEF VInv

\* Steps that replace threads without touching a list or a callback: new threads and those
\* whose packet has been replaced have decoded nothing, or what they should.
LEMMA ThreadsValues ==
  ASSUME VInv, Unmoved, UNCHANGED <<bound, wild>>,
         \A p \in InFlight' : p \in InFlight \/ (IsPacket(p) /\ p.items = Outdated),
         \A u \in threads' :
           \/ u \in threads
           \/ /\ u.pc = "spawned" => u.at = 1 /\ u.dataPtr = 0 /\ u.result = {}
              /\ u.pc = "decoding" => bound[u.cb].id = u.pkt.id /\ (wild = {} => bound[u.cb].ok)
              /\ (~BothFaults /\ u.pkt.items # Outdated) => Progress(u)'
  PROVE  OwnMatches' /\ ListsThere' /\ PacketsFit' /\ ThreadsOK' /\ Decoding'
<1>1. OwnMatches' /\ ListsThere' /\ PacketsFit'
  BY UnmovedOwn, UnmovedLists, UnmovedPackets DEF VInv
<1>2. ThreadsOK'
  BY DEF VInv, ThreadsOK
<1>3. Decoding'
  <2> SUFFICES ASSUME ~BothFaults', NEW u \in threads', u.pkt.items # Outdated PROVE Progress(u)'
    BY DEF Decoding
  <2>1. ~BothFaults
    BY DEF Unmoved, BothFaults
  <2>2. CASE u \in threads
    <3>1. Progress(u)
      BY <2>1, <2>2 DEF VInv, Decoding
    <3> QED BY <3>1, UnmovedProgress
  <2>3. CASE u \notin threads
    BY <2>1, <2>3
  <2> QED BY <2>2, <2>3
<1> QED BY <1>1, <1>2, <1>3

\* A packet carries the values of the block, and the library has listed no more of them.
LEMMA SendValues ==
  ASSUME IInv, VInv, NEW i \in Ids, FwSendData(i)
  PROVE  OwnMatches' /\ ListsThere' /\ PacketsFit' /\ ThreadsOK' /\ Decoding'
<1>1. Unmoved /\ UNCHANGED <<bound, threads, wild>>
  BY DEF FwSendData, logVars, libVars, fwVars, Unmoved
<1> DEFINE items == IF i \in own THEN blocks[i] ELSE Outdated
           listed == IF logBlocks[i] = NoBlock THEN 0 ELSE Len(logBlocks[i])
<1>2. PICK n : link' = link \cup {[n |-> n, id |-> i, items |-> items, listed |-> listed]}
  BY DEF FwSendData
<1> DEFINE q == [n |-> n, id |-> i, items |-> items, listed |-> listed]
<1>3. items \in Seq(Items)
  BY EmptySeq DEF Outdated, VInv, OwnMatches, IInv, LogTypeOK, BlockLists
<1>4. listed \in Nat
  <2>1. logBlocks[i] # NoBlock => logBlocks[i] \in Seq(Items)
    BY DEF IInv, LogTypeOK, BlockLists
  <2> QED BY <2>1, LenProperties
<1>5. ASSUME ~BothFaults, items # Outdated, logBlocks[i] # NoBlock
      PROVE  Begins(items, Mine(i)) /\ listed <= Len(items) /\ listed <= Len(logBlocks[i])
  <2>1. Mine(i) = items /\ logBlocks[i] \in Seq(Items)
    BY <1>5 DEF VInv, OwnMatches, Matches, IInv, LogTypeOK, BlockLists
  <2>2. listed = Len(logBlocks[i])
    BY <1>5
  <2> HIDE DEF items, listed
  <2>3. Len(logBlocks[i]) <= Len(items)
    <3>1. CASE Unread({"append"}, i)
      <4>1. items = Append(logBlocks[i], op.item) /\ op.item \in Items
        BY <1>5, <2>1, <3>1 DEF Mine, Listed, Unread, IInv, LogTypeOK, Asked
      <4> QED BY <2>1, <4>1, AppendProperties, LenProperties
    <3>2. CASE ~Unread({"append"}, i)
      BY <2>1, <3>2, LenProperties DEF Mine
    <3> QED BY <3>1, <3>2
  <2> QED BY <1>3, <2>1, <2>2, <2>3, LenProperties DEF Begins
<1> HIDE DEF items, listed
<1>6. IsPacket(q) /\ q.id = i /\ q.items = items /\ q.listed = listed
  BY <1>3, <1>4 DEF IsPacket
<1>7. InFlight' = InFlight \cup {q}
  BY <1>1, <1>2 DEF InFlight
<1> HIDE DEF q
<1>8. PacketsFit'
  <2>1. \A p \in InFlight' : IsPacket(p)
    BY <1>6, <1>7 DEF VInv, PacketsFit
  <2>2. ASSUME ~BothFaults', NEW p \in InFlight', p.items # Outdated, logBlocks'[p.id] # NoBlock
        PROVE  Fits(p)'
    <3>1. ~BothFaults /\ logBlocks[p.id] # NoBlock
      BY <1>1, <2>2 DEF Unmoved, BothFaults
    <3>2. Fits(p)
      BY <1>5, <1>6, <1>7, <2>2, <3>1 DEF VInv, PacketsFit, Fits
    <3> QED BY <1>1, <3>2 DEF Fits, Unmoved, Mine, Listed, Unread
  <2> QED BY <2>1, <2>2 DEF PacketsFit
<1>9. ThreadsOK'
  BY <1>1 DEF VInv, ThreadsOK
<1>10. Decoding'
  <2> SUFFICES ASSUME ~BothFaults', NEW t \in threads', t.pkt.items # Outdated PROVE Progress(t)'
    BY DEF Decoding
  <2>1. Progress(t)
    BY <1>1 DEF VInv, Decoding, Unmoved, BothFaults
  <2> QED BY <1>1, <2>1, UnmovedProgress
<1> QED BY <1>1, <1>8, <1>9, <1>10, UnmovedOwn, UnmovedLists DEF VInv

\* A thread that has not copied the packet is left with another one, which may be torn.
LEMMA ReceiveAgainValues ==
  ASSUME VInv, wild = {}, ReceiveAgain
  PROVE  OwnMatches' /\ ListsThere' /\ PacketsFit' /\ ThreadsOK' /\ Decoding'
<1>1. Unmoved /\ UNCHANGED <<bound, wild, link>>
  BY DEF ReceiveAgain, logVars, libVars, fwVars, Unmoved
<1>2. PICK t, i : t \in threads /\ threads' = Overwritten([t.pkt EXCEPT !.id = i, !.items = Outdated])
  BY DEF ReceiveAgain
<1> DEFINE q == [t.pkt EXCEPT !.id = i, !.items = Outdated]
           v == [n |-> t.pkt.n, id |-> i, items |-> Outdated, listed |-> t.pkt.listed]
<1>3. t.pkt = [n |-> t.pkt.n, id |-> t.pkt.id, items |-> t.pkt.items, listed |-> t.pkt.listed]
      /\ t.pkt.listed \in Nat
  BY <1>2 DEF VInv, PacketsFit, InFlight, IsPacket
<1>4. q = v /\ IsPacket(v) /\ v.items = Outdated
  <2>1. q = v
    <3> DEFINE S == [n : {t.pkt.n}, id : {t.pkt.id, i}, items : {t.pkt.items, Outdated},
                     listed : {t.pkt.listed}]
    <3>1. t.pkt \in S
      BY <1>3
    <3>2. q \in S /\ q.id = i /\ q.items = Outdated
      BY <3>1
    <3> HIDE DEF q
    <3> QED BY <3>2
  <2>2. v.listed \in Nat /\ v.items = Outdated /\ Outdated \in Seq(Items)
    BY <1>3, EmptySeq DEF Outdated
  <2>3. v = [n |-> v.n, id |-> v.id, items |-> v.items, listed |-> v.listed]
    OBVIOUS
  <2> HIDE DEF v
  <2>4. IsPacket(v)
    BY <2>2, <2>3 DEF IsPacket
  <2> QED BY <2>1, <2>2, <2>4
<1>5. threads' = Overwritten(v)
  BY <1>2, <1>4
<1> HIDE DEF v
<1>6. \A u \in threads' : \E k \in threads :
        Repacked(u, k) /\ IsThread(u) /\ (u = k \/ (k.pc = "spawned" /\ u.pkt = v))
  BY <1>5, OverwrittenThreads DEF VInv
<1>7. ASSUME NEW u \in threads'
      PROVE  /\ u.pkt \in InFlight \/ u.pkt = v
             /\ u.pc = "spawned" => u.at = 1 /\ u.dataPtr = 0 /\ u.result = {}
             /\ u \in threads \/ u.pc = "spawned"
  <2>1. PICK k \in threads :
          Repacked(u, k) /\ IsThread(u) /\ (u = k \/ (k.pc = "spawned" /\ u.pkt = v))
    BY <1>6
  <2>2. u.pc = "spawned" => u.at = 1 /\ u.dataPtr = 0 /\ u.result = {}
    BY <2>1 DEF Repacked, VInv, ThreadsOK
  <2>3. u \in threads \/ u.pc = "spawned"
    BY <2>1 DEF Repacked
  <2> QED BY <2>1, <2>2, <2>3 DEF InFlight
<1>8. \A p \in InFlight' : p \in InFlight \/ p = v
  BY <1>1, <1>7 DEF InFlight
<1>9. \A u \in threads' : u.pc = "spawned" => Progress(u)'
  BY NoProgress
<1> QED BY <1>1, <1>4, <1>7, <1>8, <1>9, ThreadsValues

\* A new thread begins at the first byte.
LEMMA DispatchValues ==
  ASSUME VInv, wild = {}, NEW p \in link, Dispatch(p)
  PROVE  OwnMatches' /\ ListsThere' /\ PacketsFit' /\ ThreadsOK' /\ Decoding'
<1>1. Unmoved /\ UNCHANGED <<bound, wild>> /\ link' \subseteq link
  BY DEF Dispatch, logVars, libVars, fwVars, Unmoved
<1>2. ASSUME NEW u \in threads'
      PROVE  /\ u.pkt \in InFlight
             /\ u \in threads \/ u.pc \in {"spawned", "unawaited"}
             /\ u.pc = "spawned" => u.at = 1 /\ u.dataPtr = 0 /\ u.result = {}
  <2>1. CASE u \in Overwritten(p)
    <3>1. PICK t \in threads : Repacked(u, t) /\ (u = t \/ (t.pc = "spawned" /\ u.pkt = p))
      BY <2>1, OverwrittenThreads DEF VInv
    <3>2. t.pc = "spawned" => t.at = 1 /\ t.dataPtr = 0 /\ t.result = {}
      BY DEF VInv, ThreadsOK
    <3>3. u.pkt \in InFlight
      BY <3>1 DEF InFlight
    <3> QED BY <3>1, <3>2, <3>3 DEF Repacked
  <2>2. CASE u \notin Overwritten(p)
    <3>1. PICK l \in cbs, pc \in {"spawned", "unawaited"} : u = Thread(p, l, pc)
      BY <2>2, DispatchThreads
    <3>2. u.pc = pc /\ u.pkt = p /\ u.at = 1 /\ u.dataPtr = 0 /\ u.result = {}
      BY <3>1, NewThread
    <3> QED BY <3>2 DEF InFlight
  <2> QED BY <2>1, <2>2
<1>3. InFlight' \subseteq InFlight
  BY <1>1, <1>2 DEF InFlight
<1>4. \A u \in threads' : u.pc \in {"spawned", "unawaited"} => Progress(u)'
  BY NoProgress
<1> QED BY <1>1, <1>2, <1>3, <1>4, ThreadsValues

\* A thread that begins to decode is at the first item of its list, and at the first byte.
LEMMA CallFunctionValues ==
  ASSUME IInv, VInv, wild = {}, NEW t \in threads, CallFunction(t)
  PROVE  OwnMatches' /\ ListsThere' /\ PacketsFit' /\ ThreadsOK' /\ Decoding'
<1>1. /\ Unmoved /\ UNCHANGED <<bound, wild, link>> /\ t.pc = "spawned"
      /\ t.at = 1 /\ t.dataPtr = 0 /\ t.result = {}
  BY DEF CallFunction, OwnStep, logVars, libVars, fwVars, Unmoved, VInv, ThreadsOK
<1>2. CASE threads' \subseteq threads
  <2>1. InFlight' \subseteq InFlight
    BY <1>1, <1>2 DEF InFlight
  <2> QED BY <1>1, <1>2, <2>1, ThreadsValues
<1>3. CASE /\ t.pkt.id = bound[t.cb].id /\ bound[t.cb].ok
           /\ threads' = (threads \ {t}) \cup {[t EXCEPT !.pc = "decoding"]}
  <2>1. PICK u : /\ threads' = (threads \ {t}) \cup {u} /\ u.cb = t.cb /\ u.pc = "decoding"
                 /\ u.pkt = t.pkt /\ u.at = 1 /\ u.dataPtr = 0 /\ u.result = {}
    <3> DEFINE v == Moved(t, "decoding", t.pkt, t.at, t.dataPtr, t.result)
    <3>1. threads' = (threads \ {t}) \cup {v}
      BY <1>3, BeginThread DEF VInv, Added
    <3>2. /\ v.cb = t.cb /\ v.pc = "decoding" /\ v.pkt = t.pkt /\ v.at = t.at
          /\ v.dataPtr = t.dataPtr /\ v.result = t.result
      BY ThreadMoved
    <3> HIDE DEF v
    <3> QED BY <1>1, <3>1, <3>2
  <2>2. InFlight' \subseteq InFlight
    BY <1>1, <2>1 DEF InFlight
  <2>3. Progress(u)'
    <3> DEFINE s == logBlocks[u.pkt.id]
    <3>1. u.pkt.id \in Ids /\ s # NoBlock /\ s # <<>>
      BY <1>3, <2>1 DEF VInv, Added, ListsThere
    <3>2. s \in Seq(Items)
      BY <3>1 DEF IInv, LogTypeOK, BlockLists
    <3> HIDE DEF s
    <3>3. Len(s) \in Nat /\ Len(s) # 0 /\ Offset(s, 1) = 0
      BY <3>1, <3>2, OffsetNext, EmptySeq, LenProperties
    <3>4. Progress(u)
      BY <2>1, <3>3 DEF Progress, Honest, s
    <3> QED BY <1>1, <3>4, UnmovedProgress
  <2> QED BY <1>1, <1>3, <2>1, <2>2, <2>3, ThreadsValues
<1> QED BY <1>2, <1>3 DEF CallFunction

\* A thread ends, or is left to erase its callback.
LEMMA EndValues ==
  ASSUME VInv, wild = {}, NEW t \in threads, Call(t) \/ Erase(t)
  PROVE  OwnMatches' /\ ListsThere' /\ PacketsFit' /\ ThreadsOK' /\ Decoding'
<1>1. Unmoved /\ UNCHANGED <<bound, wild, link>>
  BY DEF Call, Erase, OwnStep, logVars, libVars, fwVars, Unmoved
<1> DEFINE q == Ended(t)
           v == Thread(q, t.cb, "refused")
<1>2. IsPacket(q) /\ q.items = Outdated
  BY EmptySeq DEF Outdated, IsPacket, Ended
<1>3. v.pc = "refused" /\ v.pkt = q
  BY NewThread
<1> HIDE DEF q, v
<1>4. \A u \in threads' : u \in threads \/ u = v
  BY DEF Call, Erase, q, v
<1>5. \A p \in InFlight' : p \in InFlight \/ p = q
  BY <1>1, <1>3, <1>4 DEF InFlight
<1>6. Progress(v)'
  BY <1>3, NoProgress
<1> QED BY <1>1, <1>2, <1>3, <1>4, <1>5, <1>6, ThreadsValues

\* What is added to a result for the item that a list has at a place.
LEMMA InsertedShown ==
  ASSUME NEW u \in Seq(Items), NEW s \in Seq(Items), NEW w \in Seq(Items),
         Begins(u, w), Begins(s, w), NEW k \in 1..Len(s), NEW res, NEW v,
         \A r \in res : r.item \in ToSet(u) => r = Shown(r.item),
         \A j \in 1..(k - 1) : j <= Len(u) => Shown(s[j]) \in res,
         k <= Len(u) => [item |-> s[k], value |-> v] = Shown(s[k])
  PROVE  LET new == Inserted(res, s[k], v)
         IN  /\ \A r \in new : r.item \in ToSet(u) => r = Shown(r.item)
             /\ \A j \in 1..k : j <= Len(u) => Shown(s[j]) \in new
<1> DEFINE x == s[k]
           new == Inserted(res, x, v)
           added == [item |-> x, value |-> v]
<1>1. /\ Len(u) \in Nat /\ Len(s) \in Nat /\ Len(w) \in Nat /\ k \in Nat
      /\ \A y \in ToSet(u) : \E j \in 1..Len(u) : y = u[j]
      /\ \A j \in 1..Len(u) : u[j] \in ToSet(u)
  BY LenProperties DEF ToSet
<1>2. \A j \in 1..Len(s) : j <= Len(u) => s[j] = u[j]
  BY <1>1 DEF Begins
<1>3. \A y : Shown(y).item = y
  BY DEF Shown
<1>4. added.item = x
  OBVIOUS
<1>5. k > Len(u) /\ x \in ToSet(u) => Shown(x) \in res
  <2> SUFFICES ASSUME k > Len(u), x \in ToSet(u) PROVE Shown(x) \in res
    OBVIOUS
  <2>1. PICK j \in 1..Len(u) : x = u[j]
    BY <1>1
  <2>2. j \in 1..(k - 1) /\ j <= Len(u) /\ s[j] = x
    BY <1>1, <1>2, <2>1
  <2> QED BY <2>2
<1>6. k <= Len(u) => x \in ToSet(u)
  BY <1>1, <1>2
<1> HIDE DEF x
<1>7. CASE \E r \in res : r.item = x
  <2>1. new = res
    BY <1>7 DEF Inserted
  <2>2. k <= Len(u) => Shown(x) \in res
    BY <1>6, <1>7
  <2> QED BY <1>1, <2>1, <2>2 DEF x
<1>8. CASE ~\E r \in res : r.item = x
  <2>1. new = res \cup {added}
    BY <1>8 DEF Inserted
  <2>2. x \in ToSet(u) => k <= Len(u)
    BY <1>1, <1>3, <1>5, <1>8
  <2>3. k <= Len(u) => added = Shown(x)
    BY DEF x
  <2> HIDE DEF new, added
  <2>4. \A r \in new : r.item \in ToSet(u) => r = Shown(r.item)
    BY <1>4, <2>1, <2>2, <2>3
  <2>5. \A j \in 1..k : j <= Len(u) => Shown(s[j]) \in new
    BY <1>1, <2>1, <2>3 DEF x
  <2> QED BY <2>4, <2>5 DEF x, new
<1> QED BY <1>7, <1>8

\* A round of the loop decodes the value of the item it is at, and moves to where the next
\* one begins.
LEMMA NextItemValues ==
  ASSUME IInv, VInv, wild = {}, NEW t \in threads, NextItem(t)
  PROVE  OwnMatches' /\ ListsThere' /\ PacketsFit' /\ ThreadsOK' /\ Decoding'
<1> DEFINE s == logBlocks[t.pkt.id]
           u == t.pkt.items
           x == s[t.at]
           last == t.at = Len(s)
           dataPtr == t.dataPtr + size(TypeOf(x))
           res == Inserted(t.result, x, Decoded(t.pkt, x, t.dataPtr))
<1>1. /\ t.pc = "decoding" /\ t.pkt \in InFlight /\ IsPacket(t.pkt)
      /\ bound[t.cb].id = t.pkt.id /\ bound[t.cb].ok /\ t.pkt.id \in Ids /\ s # NoBlock
  <2>1. t.pc = "decoding"
    BY DEF NextItem, Decode
  <2>2. t.pkt \in InFlight /\ IsPacket(t.pkt)
    BY DEF VInv, PacketsFit, InFlight
  <2>3. bound[t.cb].id = t.pkt.id /\ bound[t.cb].ok
    BY <2>1 DEF VInv, ThreadsOK
  <2>4. t.cb \in Listeners /\ bound[t.cb] \in [id : Ids, ok : BOOLEAN] /\ bound[t.cb] # Unbound
    BY DEF VInv, Added
  <2>5. s # NoBlock
    BY <2>3, <2>4 DEF VInv, ListsThere
  <2> QED BY <2>1, <2>2, <2>3, <2>4, <2>5
<1>2. Unmoved /\ UNCHANGED <<bound, wild, link>>
  BY DEF NextItem, Decode, OwnStep, logVars, libVars, fwVars, Unmoved
<1>3. s \in Seq(Items)
  BY <1>1 DEF IInv, LogTypeOK, BlockLists
<1>4. PICK v : /\ threads' = (threads \ {t}) \cup {v} /\ v.cb = t.cb /\ v.pkt = t.pkt
               /\ v.pc = IF last THEN "decoded" ELSE "decoding"
               /\ v.at = IF last THEN t.at ELSE t.at + 1
               /\ v.dataPtr = dataPtr /\ v.result = res
  <2>1. List(t) = s
    BY <1>1 DEF List
  <2> DEFINE pc == IF last THEN "decoded" ELSE t.pc
             at == IF last THEN t.at ELSE t.at + 1
  <2>2. threads' = (threads \ {t}) \cup {Moved(t, pc, t.pkt, at, dataPtr, res)}
    BY <2>1, DecodeThreads DEF VInv
  <2> HIDE DEF s, x, last, dataPtr, res
  <2>3. pc = IF last THEN "decoded" ELSE "decoding"
    BY <1>1
  <2> HIDE DEF pc, at
  <2>4. LET m == Moved(t, pc, t.pkt, at, dataPtr, res)
        IN  m.cb = t.cb /\ m.pkt = t.pkt /\ m.pc = pc /\ m.at = at /\ m.dataPtr = dataPtr /\ m.result = res
    BY ThreadMoved
  <2> QED BY <2>2, <2>3, <2>4 DEF at
<1> HIDE DEF last, dataPtr, res
<1>5. InFlight' \subseteq InFlight
  BY <1>1, <1>2, <1>4 DEF InFlight
<1>6. ASSUME ~BothFaults, u # Outdated PROVE Progress(v)'
  <2>1. /\ t.at \in 1..Len(s) /\ t.dataPtr = Offset(s, t.at) /\ Honest(t)
        /\ \A j \in 1..(t.at - 1) : j <= Len(u) => Shown(s[j]) \in t.result
    BY <1>1, <1>6 DEF VInv, Decoding, Progress
  <2>2. Fits(t.pkt)
    BY <1>1, <1>6 DEF VInv, PacketsFit
  <2> DEFINE w == Mine(t.pkt.id)
  <2>3. /\ u \in Seq(Items) /\ t.pkt.listed \in Nat /\ Begins(u, w)
        /\ t.pkt.listed <= Len(u) /\ t.pkt.listed <= Len(s)
    BY <1>1, <2>2 DEF IsPacket, Fits
  <2>4. w \in Seq(Items) /\ Begins(s, w)
    <3>1. CASE Unread({"append"}, t.pkt.id)
      <4>1. w = Append(s, op.item) /\ op.item \in Items
        BY <1>1, <3>1 DEF Mine, Listed, Unread, IInv, LogTypeOK, Asked
      <4> HIDE DEF s, w
      <4> QED BY <1>3, <4>1, AppendProperties, LenProperties DEF Begins
    <3>2. CASE ~Unread({"append"}, t.pkt.id)
      <4>1. w = s
        BY <3>2 DEF Mine
      <4> HIDE DEF s, w
      <4> QED BY <1>3, <4>1, LenProperties DEF Begins
    <3> QED BY <3>1, <3>2
  <2> HIDE DEF s, w, u
  <2>5. Len(s) \in Nat /\ Len(u) \in Nat /\ Len(w) \in Nat /\ t.at \in Nat
    BY <1>3, <2>1, <2>3, <2>4, LenProperties
  <2>6. \A j \in 1..Len(s) : j <= Len(u) => u[j] = s[j]
    BY <2>3, <2>4, <2>5 DEF Begins
  <2>7. t.at <= Len(u) => [item |-> x, value |-> Decoded(t.pkt, x, t.dataPtr)] = Shown(x)
    <3> SUFFICES ASSUME t.at <= Len(u)
                 PROVE  [item |-> s[t.at], value |-> Decoded(t.pkt, s[t.at], Offset(s, t.at))] = Shown(s[t.at])
      BY <2>1
    <3>1. \A j \in 1..t.at : t.pkt.items[j] = s[j]
      BY <2>1, <2>5, <2>6 DEF u
    <3>2. t.pkt.items \in Seq(Items) /\ t.at <= Len(t.pkt.items)
      BY <2>3 DEF u
    <3> QED BY <1>3, <2>1, <3>1, <3>2, DecodedIsShown
  <2>8. /\ \A r \in res : r.item \in ToSet(u) => r = Shown(r.item)
        /\ \A j \in 1..t.at : j <= Len(u) => Shown(s[j]) \in res
    <3>1. \A r \in t.result : r.item \in ToSet(u) => r = Shown(r.item)
      BY <2>1 DEF Honest, u
    <3> DEFINE d == Decoded(t.pkt, x, t.dataPtr)
               k == t.at
               old == t.result
    <3>2. res = Inserted(old, s[k], d) /\ (k <= Len(u) => [item |-> s[k], value |-> d] = Shown(s[k]))
      BY <2>7 DEF res
    <3>3. k \in 1..Len(s) /\ (\A j \in 1..(k - 1) : j <= Len(u) => Shown(s[j]) \in old)
      BY <2>1
    <3>4. \A r \in old : r.item \in ToSet(u) => r = Shown(r.item)
      BY <3>1
    <3> HIDE DEF d, k, old
    <3>5. LET new == Inserted(old, s[k], d)
          IN  /\ \A r \in new : r.item \in ToSet(u) => r = Shown(r.item)
              /\ \A j \in 1..k : j <= Len(u) => Shown(s[j]) \in new
      BY <1>3, <2>3, <2>4, <3>2, <3>3, <3>4, InsertedShown
    <3> QED BY <3>2, <3>5 DEF k
  <2>9. dataPtr = Offset(s, t.at + 1)
    BY <1>3, <2>1, OffsetNext DEF dataPtr
  <2>10. Honest(v)
    BY <1>4, <2>8 DEF Honest, u
  <2>11. CASE last
    <3>1. \A k \in 1..t.pkt.listed : Shown(u[k]) \in res
      <4> SUFFICES ASSUME NEW k \in 1..t.pkt.listed PROVE Shown(u[k]) \in res
        OBVIOUS
      <4>1. k \in 1..t.at /\ k <= Len(u) /\ k \in 1..Len(s)
        BY <2>3, <2>5, <2>11 DEF last, s
      <4> QED BY <2>6, <2>8, <4>1
    <3>2. v.pc = "decoded"
      BY <1>4, <2>11
    <3>3. Progress(v)
      BY <1>4, <2>10, <3>1, <3>2 DEF Progress, u
    <3> QED BY <1>2, <3>3, UnmovedProgress
  <2>12. CASE ~last
    <3>1. v.pc = "decoding" /\ v.at = t.at + 1 /\ v.at \in 1..Len(s) /\ v.at - 1 = t.at
      BY <1>4, <2>1, <2>5, <2>12 DEF last, s
    <3>2. /\ v.dataPtr = Offset(s, v.at)
          /\ \A j \in 1..(v.at - 1) : j <= Len(u) => Shown(s[j]) \in v.result
      BY <1>4, <2>8, <2>9, <3>1
    <3>3. Progress(v)
      BY <1>4, <2>10, <3>1, <3>2 DEF Progress, u, s
    <3> QED BY <1>2, <3>3, UnmovedProgress
  <2> QED BY <2>11, <2>12
<1>7. v.pc # "spawned" /\ (v.pc = "decoding" => bound[v.cb].id = v.pkt.id /\ bound[v.cb].ok)
  BY <1>1, <1>4
<1> QED BY <1>2, <1>4, <1>5, <1>6, <1>7, ThreadsValues

\* Together with the invariant of Log, VInv is inductive.
LEMMA StepValues == ASSUME IInv, VInv, [Next]_vars PROVE VInv'
<1>1. Added'
  BY AddedStep DEF VInv
<1>2. CASE UNCHANGED vars
  <2>1. Unmoved /\ UNCHANGED <<bound, wild, link, threads>>
    BY <1>2 DEF vars, dataVars, logVars, libVars, fwVars, Unmoved
  <2>2. InFlight' = InFlight
    BY <2>1 DEF InFlight
  <2> QED BY <1>1, <2>1, <2>2, ThreadsValues DEF VInv
<1>3. CASE Next
  <2> DEFINE Rest == OwnMatches /\ ListsThere /\ PacketsFit /\ ThreadsOK /\ Decoding
  <2>1. wild = {}
    BY <1>3 DEF Next, UB
  <2>2. ASSUME LogStep PROVE Rest'
    BY <2>1, <2>2, OwnMatchesLog, ListsThereLog, ThreadsLog DEF VInv
  <2>3. ASSUME NEW t \in threads, GoWild(t) PROVE Rest'
    <3>1. Unmoved /\ UNCHANGED <<bound, link, threads>> /\ wild' # {}
      BY <2>3 DEF GoWild, OwnStep, logVars, libVars, fwVars, Unmoved
    <3>2. OwnMatches' /\ ListsThere'
      BY <3>1, UnmovedOwn, UnmovedLists DEF VInv
    <3>3. PacketsFit'
      BY <3>1, UnmovedPackets DEF VInv, InFlight
    <3>4. ThreadsOK'
      BY <2>1, <3>1 DEF VInv, ThreadsOK
    <3>5. Decoding'
      <4> SUFFICES ASSUME ~BothFaults', NEW u \in threads', u.pkt.items # Outdated PROVE Progress(u)'
        BY DEF Decoding
      <4>1. Progress(u)
        BY <3>1 DEF VInv, Decoding, Unmoved, BothFaults
      <4> QED BY <3>1, <4>1 DEF Progress, Honest
    <3> QED BY <3>2, <3>3, <3>4, <3>5
  <2>4. Rest'
    BY <1>3, <2>1, <2>2, <2>3, AddValues, SendValues, ReceiveAgainValues, DispatchValues,
       CallFunctionValues, NextItemValues, EndValues
    DEF Next
  <2> QED BY <1>1, <2>4 DEF VInv
<1> QED BY <1>2, <1>3

\* Nothing is on its way at first.
LEMMA InitValues == Init => VInv
<1> SUFFICES ASSUME Init PROVE VInv
  OBVIOUS
<1>1. \A i \in Ids : logBlocks[i] # <<>>
  <2>1. NoBlock # <<>>
    BY LogAssumption, EmptySeq
  <2> QED BY <2>1 DEF Init, LogInit
<1> QED BY <1>1, DataInit
        DEF DInv, Init, LogInit, VInv, OwnMatches, ListsThere, PacketsFit, InFlight, ThreadsOK,
            Decoding

\* A callback is given every item that had been listed when its packet was sent, and none of
\* the packet's items with another's value, at whatever point of appends, deletions, restarts
\* and other packets its thread has read the list (Log.cpp:38-81).
THEOREM DataValues == Spec => []ValuesAreOfTheirItems
<1>1. Init => IInv /\ VInv
  BY InitValues, LogInitInv DEF Init
<1>2. IInv /\ VInv /\ [Next]_vars => (IInv /\ VInv)'
  BY StepValues, DataStepIsLogStep, LogStepInv
<1>3. IInv /\ VInv => ValuesAreOfTheirItems
  BY DEF VInv, Decoding, Progress, Honest, ValuesAreOfTheirItems, BothFaults
<1> QED BY <1>1, <1>2, <1>3, PTL DEF Spec
=============================================================================
