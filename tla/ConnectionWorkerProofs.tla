----------------------- MODULE ConnectionWorkerProofs -----------------------
(***************************************************************************)
(* The safety of ConnectionWorker for every set of callbacks and packets.  *)
(* The handshake of lines 85-98 is right because a frame that still waits  *)
(* has spawned nobody but the thread of its iterator (Handshake below);    *)
(* everything else about the callback list follows from that.              *)
(***************************************************************************)
EXTENDS ConnectionWorker, TLAPS, SequenceTheorems

\* Registered nodes are distinct: an iterator names one node.
ListOK ==
  /\ ToSet(list) \subseteq added
  /\ \A i, j \in DOMAIN list : list[i] = list[j] => i = j

\* Only received packets have threads, and a packet just received has none yet.
PacketsFresh ==
  /\ pRecv \notin link
  /\ \A t \in Threads : tpc[t] # "none" => t[1] \notin link
  /\ wpc \in {"gate", "accepted"} => \A t \in Threads : t[1] = pRecv => tpc[t] = "none"

\* While nobody has finished its iterator the frame has at most one thread: the one
\* of the node the loop stands at, and none before the loop begins to wait.
Handshake ==
  /\ wpc \in DispatchPcs \cup {"accepted"} => pRecv \in Packets
  /\ wpc \in Waiting => it <= Len(list)
  /\ (wpc = "scan" /\ ~iterDone) =>
        \A t \in Threads : t[1] = pRecv => tpc[t] = "none"
  /\ wpc \in Waiting =>
        \A t \in Threads : (t[1] = pRecv /\ tpc[t] # "none") => t[2] = list[it]

IInv ==
  /\ TypeOK /\ ListOK /\ PacketsFresh /\ Handshake
  /\ OwnIterator /\ ErasedOnlyIfRefused

\* The waiter sleeps until its thread has notified it, or wakes up on its own; only in the
\* second case can it come to the predicate too early, or leave before the notification.
Sleeps ==
  /\ \A t \in Threads : tpc[t] = "copied" => wpc \in Waiting /\ FrameAlive(t)
  /\ wpc \in Waiting /\ iterDone =>
       \A t \in Threads : FrameAlive(t) => tpc[t] \notin {"lock", "copied"}
  /\ \A t \in Threads : tpc[t] = "flagged" /\ FrameAlive(t) => iterDone
  /\ \A t \in Threads : tpc[t] = "flagged" /\ t[1] \notin woken =>
                           wpc = "blocked" /\ FrameAlive(t)
  /\ wpc = "recheck" => iterDone \/ pRecv \in woken
  /\ wpc = "preblock" => pRecv \in woken

HInv == IInv /\ Sleeps /\ BlockedHasWaker
-----------------------------------------------------------------------------
(* Lists without repetition.                                               *)

Injective(s) == \A i, j \in DOMAIN s : s[i] = s[j] => i = j

\* push_back of a node that was never registered keeps the nodes distinct.
LEMMA AppendNode ==
  ASSUME NEW S, NEW s \in Seq(S), NEW c \in S, c \notin ToSet(s), Injective(s)
  PROVE  /\ Append(s, c) \in Seq(S)
         /\ ToSet(Append(s, c)) = ToSet(s) \cup {c}
         /\ Injective(Append(s, c))
<1> DEFINE r == Append(s, c)
<1>1. /\ r \in Seq(S) /\ Len(r) = Len(s) + 1
      /\ \A j \in 1..Len(s) : r[j] = s[j]
      /\ r[Len(s) + 1] = c
  BY AppendProperties
<1>2. /\ Len(s) \in Nat /\ DOMAIN s = 1..Len(s)
      /\ DOMAIN r = 1..(Len(s) + 1)
  BY <1>1, LenProperties
<1>3. ToSet(r) = ToSet(s) \cup {c}
  BY <1>1, <1>2 DEF ToSet
<1>4. \A j \in 1..Len(s) : s[j] # c
  BY <1>2 DEF ToSet
<1>5. Injective(r)
  BY <1>1, <1>2, <1>4 DEF Injective
<1> QED BY <1>1, <1>3, <1>5

\* erase of one node removes it and nothing else.
LEMMA RemoveNode ==
  ASSUME NEW S, NEW s \in Seq(S), NEW i \in DOMAIN s, Injective(s)
  PROVE  /\ RemoveAt(s, i) \in Seq(S)
         /\ ToSet(RemoveAt(s, i)) = ToSet(s) \ {s[i]}
         /\ Injective(RemoveAt(s, i))
<1> DEFINE a == SubSeq(s, 1, i - 1)
           b == SubSeq(s, i + 1, Len(s))
           r == RemoveAt(s, i)
<1>1. Len(s) \in Nat /\ DOMAIN s = 1..Len(s) /\ \A j \in 1..Len(s) : s[j] \in S
  BY LenProperties, ElementOfSeq
<1>2. /\ a \in Seq(S) /\ Len(a) = i - 1
      /\ \A j \in 1..(i - 1) : a[j] = s[j]
  <2>1. \A j \in 1..(i - 1) : s[j] \in S
    BY <1>1
  <2> QED BY <2>1, <1>1, SubSeqProperties
<1>3. /\ b \in Seq(S) /\ Len(b) = Len(s) - i
      /\ \A j \in 1..(Len(s) - i) : b[j] = s[i + j]
  <2>1. \A j \in (i + 1)..Len(s) : s[j] \in S
    BY <1>1
  <2>2. /\ b \in Seq(S)
        /\ Len(b) = IF i + 1 <= Len(s) THEN Len(s) - (i + 1) + 1 ELSE 0
        /\ \A j \in 1..(Len(s) - (i + 1) + 1) : b[j] = s[(i + 1) + j - 1]
    BY <2>1, <1>1, SubSeqProperties
  <2> QED BY <2>2, <1>1
<1>4. /\ r \in Seq(S) /\ Len(r) = Len(s) - 1
      /\ \A j \in 1..(Len(s) - 1) : r[j] = IF j < i THEN s[j] ELSE s[j + 1]
  <2>1. /\ r \in Seq(S) /\ Len(r) = Len(a) + Len(b)
        /\ \A j \in 1..(Len(a) + Len(b)) :
             r[j] = IF j <= Len(a) THEN a[j] ELSE b[j - Len(a)]
    BY <1>2, <1>3, ConcatProperties DEF RemoveAt
  <2> HIDE DEF a, b, r
  <2>2. ASSUME NEW j \in 1..(Len(s) - 1)
        PROVE  r[j] = IF j < i THEN s[j] ELSE s[j + 1]
    <3>1. CASE j < i
      BY <3>1, <2>1, <1>1, <1>2, <1>3
    <3>2. CASE ~(j < i)
      <4>1. j - (i - 1) \in 1..(Len(s) - i) /\ i + (j - (i - 1)) = j + 1
        BY <3>2, <1>1
      <4>2. b[j - (i - 1)] = s[j + 1]
        BY <4>1, <1>3
      <4> QED BY <4>2, <3>2, <2>1, <1>1, <1>2, <1>3
    <3> QED BY <3>1, <3>2
  <2> QED BY <2>1, <2>2, <1>1, <1>2, <1>3
<1>5. DOMAIN r = 1..(Len(s) - 1)
  BY <1>1, <1>4, LenProperties
<1> HIDE DEF r
<1>6. Injective(r)
  <2> DEFINE at(j) == IF j < i THEN j ELSE j + 1
  <2> SUFFICES ASSUME NEW j \in DOMAIN r, NEW k \in DOMAIN r, r[j] = r[k] PROVE j = k
    BY DEF Injective
  <2>1. /\ at(j) \in DOMAIN s /\ at(k) \in DOMAIN s
        /\ s[at(j)] = r[j] /\ s[at(k)] = r[k]
    BY <1>1, <1>4, <1>5
  <2>2. at(j) = at(k)
    BY <2>1 DEF Injective
  <2> QED BY <2>2, <1>1, <1>5
<1>7. ASSUME NEW x PROVE x \in ToSet(r) <=> x \in ToSet(s) \ {s[i]}
  <2>1. ASSUME NEW j \in DOMAIN r, x = r[j] PROVE x \in ToSet(s) \ {s[i]}
    <3>1. CASE j < i
      BY <2>1, <3>1, <1>1, <1>4, <1>5 DEF ToSet, Injective
    <3>2. CASE ~(j < i)
      BY <2>1, <3>2, <1>1, <1>4, <1>5 DEF ToSet, Injective
    <3> QED BY <3>1, <3>2
  <2>2. ASSUME NEW j \in DOMAIN s, x = s[j], x # s[i] PROVE x \in ToSet(r)
    <3>1. CASE j < i
      <4>1. j \in DOMAIN r /\ r[j] = x
        BY <2>2, <3>1, <1>1, <1>4, <1>5
      <4> QED BY <4>1 DEF ToSet
    <3>2. CASE j > i
      <4>1. j - 1 \in DOMAIN r /\ r[j - 1] = x
        BY <2>2, <3>2, <1>1, <1>4, <1>5
      <4> QED BY <4>1 DEF ToSet
    <3> QED BY <2>2, <3>1, <3>2, <1>1
  <2> QED BY <2>1, <2>2 DEF ToSet
<1> QED BY <1>4, <1>6, <1>7 DEF r

-----------------------------------------------------------------------------
(* The inductive invariant.                                                *)

\* The object starts with no callbacks, no packets received and no threads.
THEOREM InitInv == Init => IInv
<1> SUFFICES ASSUME Init PROVE IInv
  OBVIOUS
<1>1. TypeOK
  <2>1. list \in Seq(Callbacks) /\ Len(list) = 0
    BY EmptySeq DEF Init
  <2>2. /\ tpc \in [Threads -> TPcs] /\ tIt \in [Threads -> Callbacks \cup {NoNode}]
        /\ tPkt \in [Threads -> Packets \cup {Empty, Torn}]
        /\ \A t \in Threads : tpc[t] = "none"
    BY DEF Init, TPcs
  <2>3. \A t \in Threads : tpc[t] \notin PastCopy
    BY <2>2 DEF PastCopy
  <2>4. wpc \in WPcs /\ it <= Len(list) + 1
    BY <2>1 DEF Init, WPcs
  <2>5. con \in BOOLEAN /\ deactivate \in BOOLEAN /\ iterDone \in BOOLEAN
    BY Zenon DEF Init
  <2>6. /\ life \in {"constructing", "live", "closing", "destroyed"}
        /\ added \in SUBSET Callbacks /\ link \in SUBSET Packets /\ woken \in SUBSET Packets
        /\ pRecv \in Packets \cup {Empty} /\ it \in Nat \ {0}
    BY DEF Init
  <2> QED BY <2>1, <2>2, <2>3, <2>4, <2>5, <2>6 DEF TypeOK
<1>2. ListOK /\ ErasedOnlyIfRefused
  BY DEF Init, ListOK, ErasedOnlyIfRefused, ToSet
<1>3. PacketsFresh /\ Handshake /\ OwnIterator
  BY ConstAssumption
  DEF Init, PacketsFresh, Handshake, OwnIterator, DispatchPcs, Waiting, PastCopy
<1> QED BY <1>1, <1>2, <1>3 DEF IInv

\* A step that moves only the receive thread's control point, not into the gate and
\* not into the dispatch loop, or from one waiting point to another.
LEMMA JumpInv ==
  ASSUME IInv, NEW pc \in WPcs, Jump(pc), pc # "gate", woken' \in SUBSET Packets,
         pc = "accepted" => wpc = "gate" /\ pRecv \in Packets,
         pc \in DispatchPcs => wpc \in Waiting /\ pc \in Waiting
  PROVE  IInv'
<1> USE DEF Jump, objVars, threadVars, IInv
<1>1. TypeOK'
  BY DEF TypeOK, DispatchPcs, Waiting
<1>2. ListOK' /\ ErasedOnlyIfRefused'
  BY DEF ListOK, ErasedOnlyIfRefused, Listed
<1>3. PacketsFresh' /\ OwnIterator'
  BY DEF PacketsFresh, OwnIterator
<1>4. Handshake'
  BY DEF Handshake, DispatchPcs, Waiting
<1> QED BY <1>1, <1>2, <1>3, <1>4

\* The steps of the public operations.
LEMMA ApiInv == IInv /\ Api => IInv'
<1> SUFFICES ASSUME IInv, Api PROVE IInv'
  OBVIOUS
<1> USE DEF objVars, workerVars, threadVars, IInv
<1>1. CASE constructed \/ start \/ stop \/ destroyPointer \/ destroyStop
  <2>1. /\ UNCHANGED <<list, added, link, pRecv, it, iterDone, threadVars, woken>>
        /\ life' \in {"constructing", "live", "closing", "destroyed"}
        /\ con' \in BOOLEAN /\ deactivate' \in BOOLEAN
        /\ wpc' = wpc \/ (wpc = "parked" /\ wpc' = "unparked")
    BY <1>1 DEF constructed, start, stop, destroyPointer, destroyStop, NotifySleeper, TypeOK
  <2>2. TypeOK'
    BY <2>1 DEF TypeOK, WPcs, DispatchPcs, Waiting
  <2>3. ListOK' /\ ErasedOnlyIfRefused'
    BY <2>1 DEF ListOK, ErasedOnlyIfRefused, Listed
  <2>4. PacketsFresh' /\ Handshake' /\ OwnIterator'
    BY <2>1 DEF PacketsFresh, Handshake, OwnIterator, DispatchPcs, Waiting
  <2> QED BY <2>2, <2>3, <2>4
<1>2. CASE \E c \in Callbacks : addCallback(c)
  <2> PICK c \in Callbacks : addCallback(c)
    BY <1>2
  <2> USE DEF addCallback
  <2>1. c \notin ToSet(list) /\ Injective(list)
    BY DEF ListOK, Injective
  <2>2. /\ list' \in Seq(Callbacks) /\ ToSet(list') = ToSet(list) \cup {c}
        /\ Injective(list')
    BY <2>1, AppendNode DEF TypeOK
  <2>3. TypeOK'
    BY <2>2 DEF TypeOK, CallbackMutexIsFree
  <2>4. ListOK' /\ ErasedOnlyIfRefused'
    BY <2>2 DEF ListOK, ErasedOnlyIfRefused, Listed, Injective
  <2>5. PacketsFresh' /\ Handshake' /\ OwnIterator'
    BY DEF PacketsFresh, Handshake, OwnIterator, CallbackMutexIsFree, DispatchPcs
  <2> QED BY <2>3, <2>4, <2>5
<1> QED BY <1>1, <1>2 DEF Api

\* The steps of the receive thread.
LEMMA WorkerInv == IInv /\ (Worker \/ Spurious) => IInv'
<1> SUFFICES ASSUME IInv, Worker \/ Spurious PROVE IInv'
  OBVIOUS
<1>1. CASE LoopTop \/ ParkOrGo \/ CheckConnection \/ RecvNull \/ Gate \/ DispatchEnd
           \/ SpuriousUnpark \/ SpuriousHandshake \/ Reblock
  <2>1. woken' \in SUBSET Packets
    BY <1>1 DEF LoopTop, ParkOrGo, CheckConnection, RecvNull, Gate, DispatchEnd,
       SpuriousUnpark, SpuriousHandshake, Reblock, GoTo, IInv, TypeOK, Handshake, DispatchPcs,
       Waiting
  <2>2. \E pc \in WPcs : /\ Jump(pc) /\ pc # "gate"
                         /\ pc = "accepted" => wpc = "gate" /\ pRecv \in Packets
                         /\ pc \in DispatchPcs => wpc \in Waiting /\ pc \in Waiting
    BY <1>1 DEF LoopTop, ParkOrGo, CheckConnection, RecvNull, Gate, DispatchEnd,
       SpuriousUnpark, SpuriousHandshake, Reblock, GoTo, WPcs, DispatchPcs, Waiting, IInv,
       TypeOK
  <2> QED BY <2>1, <2>2, JumpInv
<1> USE DEF objVars, threadVars, IInv
<1>2. CASE RecvTimeout \/ \E p \in Packets : Recv(p)
  <2>1. /\ UNCHANGED <<objVars, list, added, it, iterDone, threadVars, woken>>
        /\ wpc = "recv" /\ wpc' = "gate" /\ link' \subseteq link
        /\ pRecv' \in {Empty} \cup (link \ link')
    BY <1>2 DEF RecvTimeout, Recv
  <2>2. TypeOK'
    BY <2>1 DEF TypeOK, WPcs, DispatchPcs, Waiting
  <2>3. ListOK' /\ ErasedOnlyIfRefused'
    BY <2>1 DEF ListOK, ErasedOnlyIfRefused, Listed
  <2>4. PacketsFresh' /\ Handshake' /\ OwnIterator'
    BY <2>1, ConstAssumption
    DEF PacketsFresh, Handshake, OwnIterator, DispatchPcs, Waiting, TypeOK, Threads
  <2> QED BY <2>2, <2>3, <2>4
<1>3. CASE DispatchBegin
  <2>1. TypeOK'
    <3>1. Len(list) \in Nat
      BY LenProperties DEF TypeOK
    <3>2. /\ UNCHANGED <<life, con, deactivate, list, added, link, pRecv, tpc, tIt, tPkt, woken>>
          /\ wpc' = "scan" /\ it' = 1 /\ iterDone' = FALSE
      BY <1>3 DEF DispatchBegin
    <3>3. (it <= Len(list) + 1)'
      BY <3>1, <3>2
    <3>4. wpc' \in WPcs /\ it' \in Nat \ {0}
      BY <3>2 DEF WPcs, DispatchPcs
    <3>5. iterDone' \in BOOLEAN
      BY <3>2, Zenon
    <3> QED BY <3>2, <3>3, <3>4, <3>5 DEF TypeOK
  <2>2. ListOK' /\ ErasedOnlyIfRefused'
    BY <1>3 DEF DispatchBegin, ListOK, ErasedOnlyIfRefused, Listed
  <2>3. PacketsFresh' /\ Handshake' /\ OwnIterator'
    BY <1>3 DEF DispatchBegin, PacketsFresh, Handshake, OwnIterator, DispatchPcs, Waiting
  <2> QED BY <2>1, <2>2, <2>3
<1>4. CASE SkipCallback \/ AwaitIterator
  <2>1. /\ UNCHANGED <<objVars, list, added, link, pRecv, iterDone, threadVars, woken>>
        /\ it' \in {it, it + 1}
        /\ \/ wpc' = "scan" /\ wpc = "scan" /\ it <= Len(list)
           \/ wpc' = "scan" /\ wpc = "recheck" /\ iterDone
           \/ wpc' = "preblock" /\ wpc = "recheck" /\ it' = it
    BY <1>4, LenProperties DEF SkipCallback, AwaitIterator, AtEnd, TypeOK
  <2>2. TypeOK'
    BY <2>1, LenProperties DEF TypeOK, WPcs, DispatchPcs, Waiting, Handshake
  <2>3. ListOK' /\ ErasedOnlyIfRefused'
    BY <2>1 DEF ListOK, ErasedOnlyIfRefused, Listed
  <2>4. PacketsFresh' /\ Handshake' /\ OwnIterator'
    BY <2>1 DEF PacketsFresh, Handshake, OwnIterator, DispatchPcs, Waiting, TypeOK
  <2> QED BY <2>2, <2>3, <2>4
<1>5. CASE SpawnCallback
  <2> DEFINE s == <<pRecv, list[it]>>
  <2>1. /\ UNCHANGED <<objVars, list, added, link, pRecv, iterDone, tIt, tPkt, woken>>
        /\ wpc = "scan" /\ it \in DOMAIN list /\ s \in Threads
        /\ list[it] \in Callbacks /\ pRecv \in Packets
        /\ tpc' = [tpc EXCEPT ![s] = "lock"]
        /\ \/ iterDone /\ it' = it + 1 /\ wpc' = "scan"
           \/ ~iterDone /\ it' = it /\ wpc' = "blocked"
    BY <1>5, LenProperties, ElementOfSeq
    DEF SpawnCallback, AtEnd, TypeOK, Handshake, DispatchPcs, Threads
  <2>2. TypeOK'
    BY <2>1, LenProperties DEF TypeOK, WPcs, TPcs, DispatchPcs, Waiting, PastCopy
  <2>3. ListOK' /\ ErasedOnlyIfRefused'
    <3>1. Listed(s[2])
      BY <2>1 DEF Listed, ToSet
    <3>2. ASSUME NEW c \in added, ~Listed(c), NEW p \in Packets, tpc[<<p, c>>] = "erased"
          PROVE  tpc'[<<p, c>>] = "erased"
      BY <2>1, <3>1, <3>2 DEF TypeOK, Threads
    <3> QED BY <2>1, <3>2 DEF ListOK, ErasedOnlyIfRefused, Listed
  <2>4. PacketsFresh' /\ OwnIterator'
    BY <2>1 DEF PacketsFresh, OwnIterator, PastCopy, TypeOK, Threads
  <2>5. Handshake'
    BY <2>1, LenProperties DEF Handshake, DispatchPcs, Waiting, TypeOK, Threads
  <2> QED BY <2>2, <2>3, <2>4, <2>5
<1> QED BY <1>1, <1>2, <1>3, <1>4, <1>5 DEF Worker, Spurious

\* The steps of a detached callback thread.
LEMMA ThreadInv == ASSUME IInv, NEW t \in Threads, Thread(t) PROVE IInv'
<1> USE DEF objVars, workerVars, IInv, Step, OwnStepOnly
<1>1. CASE CopyIterator(t)
  <2>1. /\ it \in DOMAIN list /\ list[it] \in Callbacks /\ list[it] = t[2]
        /\ t[1] = pRecv /\ tpc[t] = "lock"
    BY <1>1, LenProperties, ElementOfSeq
    DEF CopyIterator, FrameAlive, MuIsFree, TypeOK, Handshake, Waiting
  <2>2. /\ tpc' = [tpc EXCEPT ![t] = "copied"] /\ tIt' = [tIt EXCEPT ![t] = t[2]]
        /\ UNCHANGED <<objVars, list, added, link, workerVars, tPkt, woken>>
    BY <1>1, <2>1 DEF CopyIterator
  <2>3. TypeOK'
    BY <2>1, <2>2, ConstAssumption DEF TypeOK, TPcs, PastCopy
  <2>4. ListOK' /\ PacketsFresh' /\ OwnIterator'
    BY <2>1, <2>2 DEF ListOK, PacketsFresh, OwnIterator, TypeOK
  <2>5. /\ tpc \in [Threads -> TPcs] /\ Handshake
        /\ UNCHANGED <<list, wpc, pRecv, it, iterDone>>
    BY <2>2 DEF TypeOK
  <2>6. Handshake'
    <3> HIDE DEF IInv, workerVars
    <3>1. \A u \in Threads : (tpc[u] = "none" <=> tpc'[u] = "none")
      BY <2>1, <2>2, <2>5
    <3>2. ((wpc = "scan" /\ ~iterDone) =>
             \A u \in Threads : u[1] = pRecv => tpc[u] = "none")'
      BY <2>5, <3>1 DEF Handshake
    <3>3. (wpc \in Waiting =>
             \A u \in Threads : (u[1] = pRecv /\ tpc[u] # "none") => u[2] = list[it])'
      BY <2>5, <3>1 DEF Handshake, Waiting
    <3> QED BY <2>5, <3>2, <3>3 DEF Handshake, DispatchPcs, Waiting
  <2>7. ErasedOnlyIfRefused'
    BY <2>1, <2>2, <2>5 DEF ErasedOnlyIfRefused, Listed
  <2> QED BY <2>3, <2>4, <2>6, <2>7
\* What a step needs that moves only the thread itself, and not to "lock" or "erased".
<1>2. ASSUME NEW pc \in TPcs, tpc' = [tpc EXCEPT ![t] = pc],
             tpc[t] \notin {"none", "erased"}, pc \notin {"none", "lock"},
             pc \in PastCopy => tpc[t] \in PastCopy,
             UNCHANGED <<objVars, list, added, link, pRecv, it, tIt, woken>>,
             wpc' = wpc \/ (wpc = "blocked" /\ wpc' = "recheck"),
             iterDone' = iterDone \/ iterDone' = TRUE,
             tPkt' \in [Threads -> Packets \cup {Empty, Torn}]
      PROVE  IInv'
  <2>1. iterDone' \in BOOLEAN
    <3>1. iterDone \in BOOLEAN
      BY DEF TypeOK
    <3> QED BY <1>2, <3>1, Zenon
  <2>2. wpc' \in WPcs /\ ((wpc \in DispatchPcs)' <=> wpc \in DispatchPcs)
    BY <1>2 DEF TypeOK, WPcs, DispatchPcs, Waiting
  <2>3. TypeOK'
    BY <1>2, <2>1, <2>2 DEF TypeOK
  <2>4. ListOK' /\ PacketsFresh'
    BY <1>2 DEF ListOK, PacketsFresh, TypeOK
  <2>5. OwnIterator' /\ ErasedOnlyIfRefused'
    BY <1>2 DEF OwnIterator, ErasedOnlyIfRefused, Listed, TypeOK
  <2>6. Handshake'
    BY <1>2 DEF Handshake, DispatchPcs, Waiting, TypeOK
  <2> QED BY <2>3, <2>4, <2>5, <2>6
<1> USE DEF TPcs, PastCopy
<1>3. CASE CopyFromDeadFrame(t)
  BY <1>2, <1>3 DEF CopyFromDeadFrame, TypeOK
<1>4. CASE FinishIterator(t)
  BY <1>2, <1>4 DEF FinishIterator, TypeOK
<1>5. CASE NotifyIterator(t)
  BY <1>2, <1>5 DEF NotifyIterator, TypeOK
<1>6. CASE CallCallback(t)
  <2>1. tPkt' \in [Threads -> Packets \cup {Empty, Torn}]
    BY <1>6 DEF CallCallback, TypeOK
  <2> QED BY <1>2, <1>6, <2>1 DEF CallCallback, TypeOK
<1>7. CASE ReturnFromCallback(t)
  BY <1>2, <1>7 DEF ReturnFromCallback, TypeOK
<1>8. CASE EraseCallback(t)
  <2>1. CASE UNCHANGED list
    BY <1>2, <1>8, <2>1 DEF EraseCallback, TypeOK
  <2>2. CASE \E i \in DOMAIN list :
               /\ list[i] = tIt[t] /\ list' = RemoveAt(list, i)
               /\ Step(t, "refused", "erased")
    <3> PICK i \in DOMAIN list :
               /\ list[i] = tIt[t] /\ list' = RemoveAt(list, i)
               /\ Step(t, "refused", "erased")
      BY <2>2
    <3>1. /\ list' \in Seq(Callbacks) /\ ToSet(list') = ToSet(list) \ {t[2]}
          /\ Injective(list')
      BY RemoveNode DEF TypeOK, ListOK, OwnIterator, Injective
    <3>2. /\ UNCHANGED <<objVars, added, link, workerVars, tIt, tPkt, woken>>
          /\ wpc \notin DispatchPcs
      BY <1>8 DEF EraseCallback, CallbackMutexIsFree
    <3>3. TypeOK'
      BY <3>1, <3>2 DEF TypeOK
    <3>4. ListOK' /\ PacketsFresh' /\ OwnIterator'
      BY <3>1, <3>2 DEF ListOK, PacketsFresh, OwnIterator, TypeOK, Injective
    <3>5. Handshake'
      BY <3>2 DEF Handshake, DispatchPcs
    <3>6. ErasedOnlyIfRefused'
      <4>1. t = <<t[1], t[2]>> /\ t[1] \in Packets /\ tpc'[t] = "erased"
        BY DEF Threads, TypeOK
      <4>2. ASSUME NEW c \in added, ~Listed(c)'
            PROVE  \E p \in Packets : tpc'[<<p, c>>] = "erased"
        <5>1. CASE c = t[2]
          BY <4>1, <5>1
        <5>2. CASE c # t[2]
          <6>1. ~Listed(c)
            BY <4>2, <5>2, <3>1 DEF Listed
          <6>2. PICK p \in Packets : tpc[<<p, c>>] = "erased"
            BY <6>1 DEF ErasedOnlyIfRefused
          <6>3. <<p, c>> # t /\ <<p, c>> \in Threads
            BY <5>2 DEF Threads, TypeOK
          <6>4. tpc'[<<p, c>>] = "erased"
            BY <6>2, <6>3 DEF TypeOK
          <6> QED BY <6>4
        <5> QED BY <5>1, <5>2
      <4> QED BY <4>2, <3>2 DEF ErasedOnlyIfRefused
    <3> QED BY <3>3, <3>4, <3>5, <3>6
  <2> QED BY <1>8, <2>1, <2>2 DEF EraseCallback
<1> QED BY <1>1, <1>3, <1>4, <1>5, <1>6, <1>7, <1>8 DEF Thread

\* Every step of every thread keeps the inductive invariant.
THEOREM StepInv == IInv /\ [Next]_vars => IInv'
<1> SUFFICES ASSUME IInv, [Next]_vars PROVE IInv'
  OBVIOUS
<1>1. CASE UNCHANGED vars
  BY <1>1 DEF vars, objVars, workerVars, threadVars, IInv, TypeOK, ListOK, PacketsFresh,
     Handshake, OwnIterator, ErasedOnlyIfRefused, Listed
<1>2. CASE Next
  BY <1>2, ApiInv, WorkerInv, ThreadInv DEF Next
<1> QED BY <1>1, <1>2

\* Every state of the worker is well typed, for any number of callbacks and packets.
THEOREM WorkerTypeOK == Spec => []TypeOK
<1>1. IInv => TypeOK
  BY DEF IInv
<1> QED BY <1>1, InitInv, StepInv, PTL DEF Spec

\* The iterator handshake of lines 85-98 hands every callback thread its own node.
THEOREM WorkerOwnIterator == Spec => []OwnIterator
<1>1. IInv => OwnIterator
  BY DEF IInv
<1> QED BY <1>1, InitInv, StepInv, PTL DEF Spec

\* A callback leaves the list only through its own thread, after it refused.
THEOREM WorkerErasedOnlyIfRefused == Spec => []ErasedOnlyIfRefused
<1>1. IInv => ErasedOnlyIfRefused
  BY DEF IInv
<1> QED BY <1>1, InitInv, StepInv, PTL DEF Spec

\* The receive thread never sleeps through an activation.
THEOREM WorkerNoMissedStart == Spec => []NoMissedStart
<1>1. Init => NoMissedStart
  BY DEF Init, NoMissedStart
<1>2. ASSUME NoMissedStart, [Next]_vars PROVE NoMissedStart'
  <2> USE <1>2 DEF NoMissedStart, objVars, workerVars, threadVars
  <2>1. CASE UNCHANGED vars
    BY <2>1 DEF vars
  <2>2. CASE Api
    BY <2>2 DEF Api, constructed, start, stop, destroyPointer, destroyStop, addCallback,
       NotifySleeper
  <2>3. CASE Worker \/ Spurious
    BY <2>3 DEF Worker, Spurious, LoopTop, ParkOrGo, CheckConnection, RecvNull, RecvTimeout,
       Recv, Gate, DispatchBegin, DispatchEnd, SkipCallback, SpawnCallback, AwaitIterator,
       Reblock, SpuriousUnpark, SpuriousHandshake, GoTo, Jump
  <2>4. ASSUME NEW t \in Threads, Thread(t) PROVE NoMissedStart'
    BY <2>4 DEF Thread, CopyIterator, CopyFromDeadFrame, FinishIterator, NotifyIterator,
       CallCallback, ReturnFromCallback, EraseCallback, OwnStepOnly
  <2> QED BY <1>2, <2>1, <2>2, <2>3, <2>4 DEF Next
<1> QED BY <1>1, <1>2, PTL DEF Spec

-----------------------------------------------------------------------------
(* The handshake, with wake-ups that nobody notified.                      *)

\* Initially nobody waits, so nobody is owed a notification.
THEOREM HandshakeInit == Init => HInv
<1> SUFFICES ASSUME Init PROVE Sleeps /\ BlockedHasWaker
  BY InitInv DEF HInv
<1> QED BY DEF Init, Sleeps, BlockedHasWaker, Waiting

\* Threads of the waiting frame that are at work are one and the same thread.
LEMMA OneWaiter ==
  ASSUME HInv, NEW t \in Threads, NEW u \in Threads, wpc \in Waiting,
         FrameAlive(t), FrameAlive(u), tpc[t] # "none", tpc[u] # "none"
  PROVE  t = u
<1>1. t[1] = u[1] /\ t[2] = u[2]
  BY DEF HInv, IInv, Handshake, FrameAlive
<1>2. t = <<t[1], t[2]>> /\ u = <<u[1], u[2]>>
  BY DEF Threads
<1> QED BY <1>1, <1>2

\* The receive thread's and the callers' steps leave no waiter without its thread.
LEMMA HandshakeWorker ==
  ASSUME HInv, Api \/ Worker \/ Spurious
  PROVE  (Sleeps /\ BlockedHasWaker)'
<1> USE DEF objVars, workerVars, threadVars, HInv, Sleeps, BlockedHasWaker, HasWaker, FrameAlive,
            DispatchPcs, Waiting
<1>1. CASE Api
  BY <1>1 DEF Api, constructed, start, stop, destroyPointer, destroyStop, addCallback,
     NotifySleeper
<1>2. CASE SpawnCallback
  <2> DEFINE s == <<pRecv, list[it]>>
  <2>1. s \in Threads /\ tpc \in [Threads -> TPcs] /\ s[1] = pRecv
    BY <1>2, LenProperties, ElementOfSeq
    DEF SpawnCallback, AtEnd, IInv, TypeOK, Handshake, Threads
  <2>2. /\ wpc = "scan" /\ tpc' = [tpc EXCEPT ![s] = "lock"]
        /\ UNCHANGED <<pRecv, iterDone, woken>>
        /\ wpc' = "scan" \/ (wpc' = "blocked" /\ ~iterDone)
    BY <1>2 DEF SpawnCallback
  <2> HIDE DEF s
  <2>3. Sleeps'
    BY <2>1, <2>2
  <2>4. BlockedHasWaker'
    BY <2>1, <2>2
  <2> QED BY <2>3, <2>4
<1>3. CASE LoopTop \/ ParkOrGo \/ CheckConnection \/ RecvNull \/ Gate \/ DispatchEnd
           \/ Reblock \/ Spurious
  BY <1>3 DEF LoopTop, ParkOrGo, CheckConnection, RecvNull, Gate, DispatchEnd,
     Reblock, Spurious, SpuriousUnpark, SpuriousHandshake, GoTo, Jump
<1>4. CASE RecvTimeout \/ \E p \in Packets : Recv(p)
  BY <1>4 DEF RecvTimeout, Recv
<1>5. CASE DispatchBegin
  BY <1>5 DEF DispatchBegin, IInv, PacketsFresh
<1>6. CASE SkipCallback \/ AwaitIterator
  BY <1>6 DEF SkipCallback, AwaitIterator
<1> QED BY <1>1, <1>2, <1>3, <1>4, <1>5, <1>6 DEF Worker

\* A callback thread that wakes the waiter was the only one that had to.
LEMMA HandshakeThread ==
  ASSUME HInv, NEW t \in Threads, Thread(t)
  PROVE  (Sleeps /\ BlockedHasWaker)'
<1> USE DEF objVars, workerVars, HInv, Sleeps, BlockedHasWaker, HasWaker, FrameAlive,
            DispatchPcs, Waiting, Step, OwnStepOnly
<1>0. tpc \in [Threads -> TPcs]
  BY DEF IInv, TypeOK
<1>1. CASE CopyIterator(t)
  BY <1>0, <1>1 DEF CopyIterator, MuIsFree
<1>2. CASE CopyFromDeadFrame(t)
  BY <1>0, <1>2 DEF CopyFromDeadFrame
<1>3. CASE FinishIterator(t)
  <2>1. wpc \in Waiting /\ FrameAlive(t) /\ ~iterDone
    BY <1>3 DEF FinishIterator
  <2>2. \A u \in Threads \ {t} : FrameAlive(u) => tpc[u] = "none"
    BY <2>1, <1>3, OneWaiter DEF FinishIterator
  <2>3. /\ tpc' = [tpc EXCEPT ![t] = "flagged"] /\ iterDone' = TRUE
        /\ UNCHANGED <<wpc, pRecv, woken>>
    BY <2>1, <1>3 DEF FinishIterator
  <2> QED BY <1>0, <2>1, <2>2, <2>3
<1>4. CASE NotifyIterator(t)
  BY <1>0, <1>4, OneWaiter DEF NotifyIterator
<1>5. CASE CallCallback(t) \/ ReturnFromCallback(t)
  BY <1>0, <1>5 DEF CallCallback, ReturnFromCallback
<1>6. CASE EraseCallback(t)
  BY <1>0, <1>6 DEF EraseCallback, CallbackMutexIsFree
<1> QED BY <1>1, <1>2, <1>3, <1>4, <1>5, <1>6 DEF Thread

\* Every step keeps it.
THEOREM HandshakeStep == HInv /\ [Next]_vars => HInv'
<1> SUFFICES ASSUME HInv, [Next]_vars PROVE HInv'
  OBVIOUS
<1>1. IInv'
  BY StepInv DEF HInv
<1>2. (Sleeps /\ BlockedHasWaker)'
  <2>1. CASE UNCHANGED vars
    BY <2>1 DEF vars, objVars, workerVars, threadVars, HInv, Sleeps, BlockedHasWaker, HasWaker,
       FrameAlive
  <2>2. CASE Next
    BY <2>2, HandshakeWorker, HandshakeThread DEF Next
  <2> QED BY <2>1, <2>2
<1> QED BY <1>1, <1>2 DEF HInv

\* The wait of line 98 is a lost wake-up only after a wake-up that nobody notified.
THEOREM WorkerBlockedHasWaker == Spec => []BlockedHasWaker
<1>1. HInv => BlockedHasWaker
  BY DEF HInv
<1> QED BY <1>1, HandshakeInit, HandshakeStep, PTL DEF Spec

\* The thread that finishes the handshake finds mu and the flag of its frame alive, and the
\* condition variable too unless the loop was woken by nobody.
THEOREM WorkerFrameOutlives == Spec => []FrameOutlivesHandshake
<1>1. HInv => FrameOutlivesHandshake
  BY DEF HInv, Sleeps, FrameOutlivesHandshake
<1> QED BY <1>1, HandshakeInit, HandshakeStep, PTL DEF Spec

-----------------------------------------------------------------------------
(* The causes of undefined behaviour.                                      *)

\* Another callback was called, or is about to be, with the thread's packet.
Rival(t) == \E u \in Threads \ {t} : u[1] = t[1] /\ tpc[u] # "none"

\* The loop spawns in the order of the list, once per node; a thread that waits for mu
\* is the one that is waited for, or the loop did not wait for it.
Spawning ==
  /\ \A t \in Threads : tpc[t] # "none" => t[2] \in added
  /\ wpc = "scan" => \A t \in Threads :
       t[1] = pRecv /\ tpc[t] # "none" => \E j \in 1..(it - 1) : t[2] = list[j]
  /\ wpc \in DispatchPcs /\ iterDone => \E u \in Threads : u[1] = pRecv /\ tpc[u] # "none"
  /\ \A t \in Threads : tpc[t] = "lock" => (wpc \in Waiting /\ FrameAlive(t)) \/ Rival(t)

Destroyed  == life \in {"closing", "destroyed"}
Destroying == ~con \/ wpc = "exit" => Destroyed

\* What may send thread t astray.
Cause(t) ==
  \/ Destroyed \/ t[1] \in woken
  \/ \E u \in Threads \ {t} : \/ u[1] = t[1] /\ tpc[u] # "none"
                              \/ u[2] = t[2] /\ tpc[u] = "erased"

CInv == HInv /\ Spawning /\ Destroying /\ UndefinedHasCause

\* A step after which every thread that had been spawned is spawned, and every erased
\* one erased, keeps the causes that were there.
LEMMA CausesStay ==
  ASSUME \A t \in Threads : tpc[t] # "none" => tpc'[t] # "none",
         \A t \in Threads : tpc[t] = "erased" => tpc'[t] = "erased",
         woken \subseteq woken', Destroyed => Destroyed'
  PROVE  /\ \A t \in Threads : Rival(t) => Rival(t)'
         /\ \A t \in Threads : Cause(t) => Cause(t)'
BY DEF Cause, Rival

\* What a step has to show for the causes.
LEMMA CausesNamed ==
  (UndefinedHasCause <=> /\ wpc = "wild" => Destroyed
                         /\ \A t \in Threads : tpc[t] = "wild" => Cause(t))
BY DEF UndefinedHasCause, Cause, Destroyed

\* The steps of the callers and of the receive thread.
LEMMA CauseWorker ==
  ASSUME CInv, Api \/ Worker \/ Spurious
  PROVE  (Spawning /\ Destroying /\ UndefinedHasCause)'
<1> USE DEF objVars, workerVars, threadVars, CInv, FrameAlive, DispatchPcs, Waiting
<1>1. CASE Api
  <2>1. /\ UNCHANGED <<pRecv, it, iterDone, threadVars, woken>> /\ added \subseteq added'
        /\ wpc' = wpc \/ (wpc = "parked" /\ wpc' = "unparked")
        /\ list' = list \/ wpc \notin DispatchPcs
    BY <1>1 DEF Api, constructed, start, stop, destroyPointer, destroyStop, addCallback,
       NotifySleeper, CallbackMutexIsFree
  <2>2. (Destroyed => Destroyed') /\ Destroying'
    BY <1>1 DEF Api, constructed, start, stop, destroyPointer, destroyStop, addCallback,
       NotifySleeper, Destroying, Destroyed
  <2>3. Spawning'
    BY <2>1 DEF Spawning, Rival
  <2>4. (wpc = "wild")' => wpc = "wild"
    BY <2>1
  <2>5. UndefinedHasCause'
    BY <2>1, <2>2, <2>4, CausesStay, CausesNamed DEF UndefinedHasCause, Cause, Destroyed
  <2> QED BY <2>2, <2>3, <2>5
<1>2. CASE SpawnCallback
  <2> DEFINE s == <<pRecv, list[it]>>
  <2>1. /\ s \in Threads /\ tpc \in [Threads -> TPcs] /\ it \in DOMAIN list
        /\ s[1] = pRecv /\ s[2] = list[it] /\ s[2] \in added
        /\ DOMAIN list = 1..Len(list) /\ Len(list) \in Nat /\ it \in Nat
    BY <1>2, LenProperties, ElementOfSeq
    DEF SpawnCallback, AtEnd, HInv, IInv, TypeOK, Handshake, Threads, ListOK, ToSet
  <2>2. /\ wpc = "scan" /\ tpc' = [tpc EXCEPT ![s] = "lock"]
        /\ UNCHANGED <<objVars, list, added, pRecv, iterDone, woken>>
        /\ \/ iterDone /\ it' = it + 1 /\ wpc' = "scan"
           \/ ~iterDone /\ it' = it /\ wpc' = "blocked"
    BY <1>2 DEF SpawnCallback
  <2>3. ASSUME NEW t \in Threads, t[1] = pRecv, tpc[t] # "none" PROVE t # s
    <3>1. PICK j \in 1..(it - 1) : t[2] = list[j]
      BY <2>2, <2>3 DEF Spawning
    <3>2. list[j] # list[it]
      BY <2>1 DEF HInv, IInv, ListOK
    <3> QED BY <2>1, <3>1, <3>2
  <2>4. tpc[s] = "none"
    BY <2>1, <2>3
  <2>5. /\ \A t \in Threads : tpc[t] # "none" => tpc'[t] # "none"
        /\ \A t \in Threads : tpc[t] = "erased" => tpc'[t] = "erased"
        /\ \A t \in Threads : tpc'[t] = "wild" => tpc[t] = "wild"
        /\ woken \subseteq woken' /\ Destroyed' = Destroyed
    BY <2>1, <2>2, <2>4 DEF Destroyed
  <2> HIDE DEF s
  <2>6. Spawning'
    <3>1. (\A t \in Threads : tpc[t] # "none" => t[2] \in added)'
      BY <2>1, <2>2 DEF Spawning
    <3>2. ASSUME (wpc = "scan")', NEW t \in Threads, (t[1] = pRecv /\ tpc[t] # "none")'
          PROVE  (\E j \in 1..(it - 1) : t[2] = list[j])'
      <4>1. CASE t = s
        BY <4>1, <3>2, <2>1, <2>2
      <4>2. CASE t # s
        <5>1. PICK j \in 1..(it - 1) : t[2] = list[j]
          BY <4>2, <3>2, <2>1, <2>2 DEF Spawning
        <5> QED BY <5>1, <3>2, <2>1, <2>2
      <4> QED BY <4>1, <4>2
    <3>3. (\E u \in Threads : u[1] = pRecv /\ tpc[u] # "none")'
      BY <2>1, <2>2
    <3>4. ASSUME NEW t \in Threads, (tpc[t] = "lock")'
          PROVE  ((wpc \in Waiting /\ FrameAlive(t)) \/ Rival(t))'
      <4>1. CASE t = s /\ iterDone
        <5>1. PICK u \in Threads : u[1] = pRecv /\ tpc[u] # "none"
          BY <4>1, <2>2 DEF Spawning
        <5>2. u # s
          BY <5>1, <2>3
        <5> QED BY <4>1, <5>1, <5>2, <2>1, <2>2 DEF Rival
      <4>2. CASE t = s /\ ~iterDone
        BY <4>2, <2>1, <2>2
      <4>3. CASE t # s
        <5>1. Rival(t)
          BY <4>3, <3>4, <2>1, <2>2 DEF Spawning
        <5> QED BY <5>1, <2>5, CausesStay
      <4> QED BY <4>1, <4>2, <4>3
    <3> QED BY <3>1, <3>2, <3>3, <3>4 DEF Spawning
  <2>7. UndefinedHasCause'
    BY <2>2, <2>5, CausesStay, CausesNamed DEF UndefinedHasCause, Cause, Destroyed
  <2> QED BY <2>2, <2>6, <2>7 DEF Destroying, Destroyed
\* The other steps of the receive thread start no thread and move none.
<1>3. ASSUME UNCHANGED <<objVars, list, added, threadVars>>, woken \subseteq woken',
             wpc' \in {"wild", "exit"} => Destroyed
      PROVE  Destroying' /\ UndefinedHasCause'
  <2>1. Destroyed' = Destroyed
    BY <1>3 DEF Destroyed
  <2>2. \A t \in Threads : Cause(t) => Cause(t)'
    BY <1>3, <2>1, CausesStay
  <2>3. UndefinedHasCause'
    BY <1>3, <2>1, <2>2, CausesNamed DEF UndefinedHasCause, Cause, Destroyed
  <2> QED BY <1>3, <2>1, <2>3 DEF Destroying
<1>4. CASE LoopTop \/ ParkOrGo \/ CheckConnection \/ RecvNull \/ Gate \/ DispatchEnd
           \/ Reblock \/ Spurious
  <2>1. /\ UNCHANGED <<objVars, list, added, pRecv, it, iterDone, threadVars>>
        /\ woken \subseteq woken'
        /\ wpc' \in {"wild", "exit"} => ~con
        /\ wpc' # "scan"
        /\ wpc' \in DispatchPcs => wpc \in DispatchPcs
        /\ wpc \in Waiting => wpc' \in Waiting
    BY <1>4 DEF LoopTop, ParkOrGo, CheckConnection, RecvNull, Gate, DispatchEnd,
       Reblock, Spurious, SpuriousUnpark, SpuriousHandshake, GoTo, Jump
  <2>2. Spawning'
    BY <2>1 DEF Spawning, Rival
  <2> QED BY <1>3, <2>1, <2>2 DEF Destroying
<1>5. CASE RecvTimeout \/ (\E p \in Packets : Recv(p)) \/ DispatchBegin
  <2>1. /\ UNCHANGED <<objVars, list, added, threadVars, woken>>
        /\ wpc \notin DispatchPcs /\ wpc' \notin {"wild", "exit"} \cup Waiting
        /\ wpc' \in DispatchPcs => wpc = "accepted" /\ wpc' = "scan" /\ ~iterDone' /\ pRecv' = pRecv
    BY <1>5 DEF RecvTimeout, Recv, DispatchBegin
  <2>2. Spawning'
    BY <2>1 DEF Spawning, Rival, HInv, IInv, PacketsFresh
  <2> QED BY <1>3, <2>1, <2>2
<1>6. CASE SkipCallback \/ (AwaitIterator /\ wpc' = "scan")
  <2>1. /\ UNCHANGED <<objVars, list, added, pRecv, iterDone, threadVars, woken>>
        /\ it \in Nat \ {0} /\ it' = it + 1 /\ wpc' = "scan"
        /\ wpc = "scan" \/ (wpc = "recheck" /\ iterDone)
    BY <1>6 DEF SkipCallback, AwaitIterator, HInv, IInv, TypeOK
  <2>2. ASSUME NEW t \in Threads, t[1] = pRecv, tpc[t] # "none"
        PROVE  \E j \in 1..(it' - 1) : t[2] = list[j]
    <3>1. CASE wpc = "scan"
      BY <3>1, <2>1, <2>2 DEF Spawning
    <3>2. CASE wpc = "recheck"
      BY <3>2, <2>1, <2>2 DEF HInv, IInv, Handshake
    <3> QED BY <3>1, <3>2, <2>1
  <2>3. \A t \in Threads : tpc[t] = "lock" => Rival(t)
    BY <2>1 DEF Spawning, HInv, Sleeps
  <2>4. Spawning'
    BY <2>1, <2>2, <2>3 DEF Spawning, Rival
  <2> QED BY <1>3, <2>1, <2>4
<1>7. CASE AwaitIterator /\ wpc' = "preblock"
  <2>1. /\ UNCHANGED <<objVars, list, added, pRecv, it, iterDone, threadVars, woken>>
        /\ wpc = "recheck"
    BY <1>7 DEF AwaitIterator
  <2>2. Spawning'
    BY <1>7, <2>1 DEF Spawning, Rival
  <2> QED BY <1>3, <1>7, <2>1, <2>2
<1>8. AwaitIterator => wpc' \in {"scan", "preblock"}
  BY DEF AwaitIterator
<1> QED BY <1>1, <1>2, <1>4, <1>5, <1>6, <1>7, <1>8 DEF Worker

\* The steps of a callback thread.
LEMMA CauseThread ==
  ASSUME CInv, NEW t \in Threads, Thread(t)
  PROVE  (Spawning /\ Destroying /\ UndefinedHasCause)'
<1> USE DEF objVars, workerVars, CInv, Step, OwnStepOnly
<1>1. /\ tpc \in [Threads -> TPcs] /\ UNCHANGED <<objVars, added, pRecv, it, woken>>
      /\ list' = list \/ wpc \notin DispatchPcs
      /\ wpc' = wpc \/ (wpc = "blocked" /\ wpc' = "recheck")
      /\ tpc[t] \notin {"none", "erased", "wild"}
      /\ \E pc \in TPcs \ {"none", "lock"} : tpc' = [tpc EXCEPT ![t] = pc]
  BY DEF Thread, CopyIterator, CopyFromDeadFrame, FinishIterator, NotifyIterator,
     CallCallback, ReturnFromCallback, EraseCallback, CallbackMutexIsFree, HInv, IInv, TypeOK, TPcs
<1>2. PICK pc \in TPcs \ {"none", "lock"} : tpc' = [tpc EXCEPT ![t] = pc]
  BY <1>1
<1>3. /\ \A u \in Threads : tpc[u] # "none" <=> tpc'[u] # "none"
      /\ \A u \in Threads : tpc[u] = "erased" => tpc'[u] = "erased"
      /\ \A u \in Threads : tpc'[u] = "lock" => tpc[u] = "lock" /\ u # t
  BY <1>1, <1>2
<1>4. ASSUME NEW u \in Threads, tpc'[u] = "lock"
      PROVE  ((wpc \in Waiting /\ FrameAlive(u)) \/ Rival(u))'
  <2>1. CASE Rival(u)
    BY <2>1, <1>3, <1>1 DEF Rival
  <2>2. CASE wpc \in Waiting /\ FrameAlive(u)
    BY <2>2, <1>1 DEF FrameAlive, Waiting, DispatchPcs
  <2> QED BY <2>1, <2>2, <1>3, <1>4 DEF Spawning
<1>5. wpc' \in DispatchPcs /\ iterDone' => \E u \in Threads : u[1] = pRecv' /\ tpc'[u] # "none"
  <2>1. CASE FinishIterator(t) /\ FrameAlive(t)
    BY <2>1, <1>1, <1>3 DEF FrameAlive
  <2>2. CASE iterDone' = iterDone
    BY <2>2, <1>1, <1>3 DEF Spawning, DispatchPcs, Waiting
  <2>3. iterDone' = iterDone \/ (FinishIterator(t) /\ FrameAlive(t))
    BY DEF Thread, CopyIterator, CopyFromDeadFrame, FinishIterator, NotifyIterator,
       CallCallback, ReturnFromCallback, EraseCallback
  <2> QED BY <2>1, <2>2, <2>3
<1>6. Spawning'
  <2>1. (\A u \in Threads : tpc[u] # "none" => u[2] \in added)'
    BY <1>1, <1>3 DEF Spawning
  <2>2. (wpc = "scan" => \A u \in Threads :
           u[1] = pRecv /\ tpc[u] # "none" => \E j \in 1..(it - 1) : u[2] = list[j])'
    BY <1>1, <1>3 DEF Spawning, DispatchPcs
  <2> QED BY <2>1, <2>2, <1>4, <1>5 DEF Spawning
\* A thread that goes wild has waited for mu of a frame that did not wait for it, notifies
\* a loop that woke up on its own, follows an iterator to a node that another thread has
\* erased, or copies the packet of a receive thread that has ended.
<1>7. ASSUME tpc'[t] = "wild" PROVE Cause(t)
  <2>1. CASE CopyFromDeadFrame(t)
    <3>1. Rival(t)
      BY <2>1 DEF CopyFromDeadFrame, Spawning
    <3> QED BY <3>1 DEF Rival, Cause
  <2>2. CASE ~Listed(tIt[t]) /\ tpc[t] \in PastCopy
    <3>1. t[2] \in added /\ ~Listed(t[2])
      BY <2>2, <1>1 DEF Spawning, HInv, IInv, OwnIterator
    <3>2. PICK p \in Packets : tpc[<<p, t[2]>>] = "erased"
      BY <3>1 DEF HInv, IInv, ErasedOnlyIfRefused
    <3>3. <<p, t[2]>> \in Threads \ {t}
      BY <3>2, <1>1 DEF Threads
    <3> QED BY <3>2, <3>3 DEF Cause
  <2>3. /\ tpc[t] = "copied" => FrameAlive(t)
        /\ tpc[t] = "flagged" => FrameAlive(t) \/ t[1] \in woken
    BY DEF HInv, Sleeps
  <2>4. CASE wpc = "exit"
    BY <2>4 DEF Destroying, Cause
  <2>5. CASE t[1] \in woken
    BY <2>5 DEF Cause
  <2> QED BY <1>1, <1>7, <2>1, <2>2, <2>3, <2>4, <2>5
      DEF Thread, CopyIterator, CopyFromDeadFrame, FinishIterator, NotifyIterator,
          CallCallback, ReturnFromCallback, EraseCallback, PastCopy
<1>8. UndefinedHasCause'
  <2>1. Destroyed' = Destroyed
    BY <1>1 DEF Destroyed
  <2>2. \A u \in Threads : Cause(u) => Cause(u)'
    BY <1>1, <1>3, <2>1, CausesStay
  <2>3. ASSUME NEW u \in Threads, tpc'[u] = "wild" PROVE Cause(u)'
    <3>1. CASE u = t
      BY <3>1, <2>2, <2>3, <1>7
    <3>2. CASE u # t
      <4>1. tpc[u] = "wild"
        BY <3>2, <2>3, <1>1, <1>2
      <4> QED BY <4>1, <2>2, CausesNamed
    <3> QED BY <3>1, <3>2
  <2>4. wpc' = "wild" => Destroyed'
    BY <1>1, <2>1, CausesNamed
  <2> QED BY <2>3, <2>4 DEF UndefinedHasCause, Cause, Destroyed
<1>9. Destroying'
  BY <1>1 DEF Destroying, Destroyed
<1> QED BY <1>6, <1>8, <1>9

\* Whatever callbacks and packets there are, and however its condition variables wake up,
\* the worker runs into undefined behaviour only for one of these causes.
THEOREM WorkerUndefinedHasCause == Spec => []UndefinedHasCause
<1>1. Init => CInv
  <2> SUFFICES ASSUME Init PROVE CInv
    OBVIOUS
  <2>1. \A t \in Threads : tpc[t] = "none"
    BY DEF Init
  <2> QED BY <2>1, HandshakeInit
      DEF Init, CInv, Spawning, Destroying, Destroyed, UndefinedHasCause, DispatchPcs, Waiting
<1>2. CInv /\ [Next]_vars => CInv'
  <2> SUFFICES ASSUME CInv, [Next]_vars PROVE CInv'
    OBVIOUS
  <2>1. HInv'
    BY HandshakeStep DEF CInv
  <2>2. CASE UNCHANGED vars
    BY <2>1, <2>2 DEF vars, objVars, workerVars, threadVars, CInv, Spawning, Destroying,
       UndefinedHasCause, Rival, Destroyed, FrameAlive
  <2>3. CASE Next
    BY <2>1, <2>3, CauseWorker, CauseThread DEF Next, CInv
  <2> QED BY <2>2, <2>3
<1>3. CInv => UndefinedHasCause
  BY DEF CInv
<1> QED BY <1>1, <1>2, <1>3, PTL DEF Spec

-----------------------------------------------------------------------------
(* A dispatch is one step: the worker implements Dispatcher.               *)

\* The loop spawns in the order of the list: a node that is ahead of it has no thread for
\* this packet yet, and the node it waits at has one.
InOrder ==
  /\ wpc = "scan" => \A t \in Threads : t[1] = pRecv /\ tpc[t] # "none" =>
                        \E j \in 1..(it - 1) : t[2] = list[j]
  /\ wpc \in Waiting => tpc[<<pRecv, list[it]>>] # "none"

OInv == IInv /\ InOrder

\* The node the loop spawns a thread for has none for this packet yet.
LEMMA SpawnedOnce ==
  ASSUME OInv, SpawnCallback
  PROVE  /\ <<pRecv, list[it]>> \in Threads /\ tpc[<<pRecv, list[it]>>] = "none"
         /\ pRecv \in Packets /\ list[it] \in Callbacks /\ it \in DOMAIN list
<1> DEFINE s == <<pRecv, list[it]>>
<1>1. /\ wpc = "scan" /\ it \in DOMAIN list /\ pRecv \in Packets /\ list[it] \in Callbacks
      /\ DOMAIN list = 1..Len(list) /\ Len(list) \in Nat /\ it \in Nat
  BY LenProperties, ElementOfSeq
  DEF SpawnCallback, AtEnd, OInv, IInv, TypeOK, Handshake, DispatchPcs
<1>2. s \in Threads /\ s[1] = pRecv /\ s[2] = list[it]
  BY <1>1 DEF Threads
<1>3. ASSUME tpc[s] # "none" PROVE FALSE
  <2>1. PICK j \in 1..(it - 1) : s[2] = list[j]
    BY <1>1, <1>2, <1>3 DEF OInv, InOrder
  <2> QED BY <1>1, <1>2, <2>1 DEF OInv, IInv, ListOK
<1> QED BY <1>1, <1>2, <1>3

\* A callback thread has begun before its step and after it.
LEMMA ThreadBegun ==
  ASSUME IInv, NEW t \in Threads, Thread(t)
  PROVE  /\ \E pc \in TPcs \ {"none", "lock"} : tpc' = [tpc EXCEPT ![t] = pc]
         /\ tpc[t] # "none" /\ UNCHANGED <<objVars, added, link, pRecv, it>>
         /\ list' = list \/ wpc \notin DispatchPcs
         /\ wpc' = wpc \/ (wpc = "blocked" /\ wpc' = "recheck")
BY DEF Thread, CopyIterator, CopyFromDeadFrame, FinishIterator, NotifyIterator, CallCallback,
   ReturnFromCallback, EraseCallback, CallbackMutexIsFree, Step, OwnStepOnly, objVars,
   workerVars, TPcs

\* Every step keeps the order.
LEMMA OrderStep == ASSUME OInv, [Next]_vars PROVE InOrder'
<1> USE DEF objVars, threadVars, workerVars, DispatchPcs, Waiting
<1>0. tpc \in [Threads -> TPcs]
  BY DEF OInv, IInv, TypeOK
<1>1. ASSUME UNCHANGED <<list, pRecv, it, tpc>>,
             wpc' = "scan" => wpc = "scan", wpc' \in Waiting => wpc \in Waiting
      PROVE  InOrder'
  BY <1>1 DEF OInv, InOrder
<1>2. CASE Api
  <2>1. CASE constructed \/ start \/ stop \/ destroyPointer \/ destroyStop
    BY <1>1, <2>1 DEF constructed, start, stop, destroyPointer, destroyStop, NotifySleeper
  <2>2. CASE \E c \in Callbacks : addCallback(c)
    BY <2>2 DEF addCallback, CallbackMutexIsFree, InOrder
  <2> QED BY <1>2, <2>1, <2>2 DEF Api
<1>3. CASE LoopTop \/ ParkOrGo \/ CheckConnection \/ RecvNull \/ Gate \/ DispatchEnd
           \/ Reblock \/ Spurious
  BY <1>1, <1>3 DEF LoopTop, ParkOrGo, CheckConnection, RecvNull, Gate, DispatchEnd,
     Reblock, Spurious, SpuriousUnpark, SpuriousHandshake, GoTo, Jump
<1>4. CASE RecvTimeout \/ \E p \in Packets : Recv(p)
  BY <1>4 DEF RecvTimeout, Recv, InOrder
<1>5. CASE DispatchBegin
  BY <1>5 DEF DispatchBegin, InOrder, OInv, IInv, PacketsFresh
<1>6. CASE SkipCallback
  <2>1. it \in Nat /\ it' = it + 1 /\ wpc = "scan" /\ UNCHANGED <<list, pRecv, tpc, wpc>>
    BY <1>6 DEF SkipCallback, OInv, IInv, TypeOK
  <2> QED BY <2>1 DEF OInv, InOrder
<1>7. CASE AwaitIterator
  <2>1. it \in Nat \ {0} /\ wpc = "recheck" /\ UNCHANGED <<list, pRecv, tpc>>
    BY <1>7 DEF AwaitIterator, OInv, IInv, TypeOK
  <2>2. CASE wpc' = "preblock" /\ UNCHANGED it
    BY <1>1, <2>1, <2>2
  <2>3. CASE wpc' = "scan" /\ it' = it + 1
    BY <2>1, <2>3 DEF OInv, IInv, Handshake, InOrder
  <2> QED BY <1>7, <2>2, <2>3 DEF AwaitIterator
<1>8. CASE SpawnCallback
  <2> DEFINE s == <<pRecv, list[it]>>
  <2>1. s \in Threads /\ s[1] = pRecv /\ s[2] = list[it] /\ it \in Nat \ {0}
    BY <1>8, SpawnedOnce DEF OInv, IInv, TypeOK
  <2>2. /\ wpc = "scan" /\ UNCHANGED <<list, pRecv>> /\ tpc' = [tpc EXCEPT ![s] = "lock"]
        /\ \/ it' = it + 1 /\ wpc' = "scan"
           \/ it' = it /\ wpc' = "blocked"
    BY <1>8 DEF SpawnCallback
  <2>3. tpc'[s] = "lock" /\ \A t \in Threads : t # s => tpc'[t] = tpc[t]
    BY <1>0, <2>1, <2>2
  <2>4. CASE it' = it + 1 /\ wpc' = "scan"
    <3>1. ASSUME NEW t \in Threads, t[1] = pRecv, tpc'[t] # "none"
          PROVE  \E j \in 1..it : t[2] = list[j]
      <4>1. CASE t = s
        BY <4>1, <2>1
      <4>2. CASE t # s
        <5>1. PICK j \in 1..(it - 1) : t[2] = list[j]
          BY <4>2, <3>1, <2>2, <2>3 DEF OInv, InOrder
        <5> QED BY <5>1, <2>1
      <4> QED BY <4>1, <4>2
    <3> QED BY <3>1, <2>1, <2>2, <2>4 DEF InOrder
  <2>5. CASE it' = it /\ wpc' = "blocked"
    BY <2>2, <2>3, <2>5 DEF InOrder
  <2> QED BY <2>2, <2>4, <2>5
<1>9. ASSUME NEW t \in Threads, Thread(t) PROVE InOrder'
  <2>1. PICK pc \in TPcs \ {"none", "lock"} : tpc' = [tpc EXCEPT ![t] = pc]
    BY <1>9, ThreadBegun DEF OInv
  <2>2. /\ tpc[t] # "none" /\ UNCHANGED <<pRecv, it>>
        /\ list' = list \/ wpc \notin DispatchPcs
        /\ wpc' = wpc \/ (wpc = "blocked" /\ wpc' = "recheck")
    BY <1>9, ThreadBegun DEF OInv
  <2>3. \A u \in Threads : (tpc'[u] # "none") <=> (tpc[u] # "none")
    BY <1>0, <2>1, <2>2
  <2>4. wpc \in Waiting => <<pRecv, list[it]>> \in Threads
    BY LenProperties, ElementOfSeq DEF OInv, IInv, TypeOK, Handshake, Threads
  <2> QED BY <2>2, <2>3, <2>4 DEF OInv, InOrder
<1>10. CASE UNCHANGED vars
  BY <1>1, <1>10 DEF vars
<1> QED BY <1>2, <1>3, <1>4, <1>5, <1>6, <1>7, <1>8, <1>9, <1>10 DEF Next, Worker

\* The state of the worker as Dispatcher sees it.
Receiving == wpc = "recv"
Mapped == <<ToSet(list), Undispatched, deactivate, pRecv, Receiving, Stage, tPkt, UB>>

\* Outside a dispatch no node is ahead of the loop.
LEMMA NothingAhead == ASSUME NEW t \in Threads, wpc \notin DispatchPcs PROVE ~StillAhead(t)
BY DEF StillAhead

\* The calls are where they were if the threads are and the loop has passed nothing by.
LEMMA SameStage ==
  ASSUME UNCHANGED tpc, \A t \in Threads : StillAhead(t)' <=> StillAhead(t)
  PROVE  Stage' = Stage
BY DEF Stage

\* What makes a step invisible.
LEMMA QuietStep ==
  ASSUME ~UB, UNCHANGED <<list, deactivate, Undispatched, pRecv, Receiving, Stage, tPkt>>,
         wpc' # "wild",
         \A t \in Threads : tpc'[t] # "wild"
  PROVE  UNCHANGED Mapped
BY DEF UB, Mapped

\* The public operations: registration and the switch, which the destructor throws too.
LEMMA ApiPromised == ASSUME OInv, Api PROVE Promise!DispatcherNext
<1> USE DEF objVars, workerVars, threadVars
<1>1. ~UB /\ UNCHANGED <<tpc, link, pRecv, it, tPkt>>
  BY DEF Api, constructed, start, stop, destroyPointer, destroyStop, addCallback
<1>2. ASSUME UNCHANGED list, wpc' = wpc \/ (wpc = "parked" /\ wpc' = "unparked"),
             deactivate' \in BOOLEAN
      PROVE  Promise!DispatcherNext
  <2>1. \A t \in Threads : StillAhead(t)' <=> StillAhead(t)
    BY <1>1, <1>2 DEF StillAhead, DispatchPcs, Waiting
  <2>2. Stage' = Stage
    BY <1>1, <2>1, SameStage
  <2>3. Undispatched' = Undispatched
    BY <1>1, <1>2 DEF Undispatched
  <2>4. UB' = UB
    BY <1>1, <1>2 DEF UB
  <2>5. Promise!Switch
    BY <1>1, <1>2, <2>2, <2>3, <2>4
    DEF Promise!Switch, Promise!bufferVars, Promise!callVars
  <2> QED BY <1>1, <2>5 DEF Promise!DispatcherNext
<1>3. CASE constructed \/ start \/ stop \/ destroyPointer \/ destroyStop
  BY <1>2, <1>3 DEF constructed, start, stop, destroyPointer, destroyStop, NotifySleeper,
     OInv, IInv, TypeOK
<1>4. ASSUME NEW c \in Callbacks, addCallback(c) PROVE Promise!DispatcherNext
  <2>1. wpc \notin DispatchPcs /\ UNCHANGED <<wpc, deactivate>>
    BY <1>4 DEF addCallback, CallbackMutexIsFree
  <2>2. Stage' = Stage
    BY <1>1, <2>1, SameStage DEF StillAhead
  <2>3. Undispatched' = Undispatched /\ UB' = UB
    BY <1>1, <2>1 DEF Undispatched, UB
  <2>4. c \notin ToSet(list) /\ Injective(list)
    BY <1>4 DEF addCallback, OInv, IInv, ListOK, Injective
  <2>5. ToSet(list') = ToSet(list) \cup {c}
    BY <1>4, <2>4, AppendNode DEF addCallback, OInv, IInv, TypeOK
  <2>6. Promise!Register(c)
    BY <1>1, <2>1, <2>2, <2>3, <2>4, <2>5
    DEF Promise!Register, Promise!bufferVars, Promise!callVars
  <2> QED BY <1>1, <2>6 DEF Promise!DispatcherNext
<1> QED BY <1>3, <1>4 DEF Api

\* The receive thread outside the loop: it receives a packet, drops it at the gate, or
\* dispatches it.
LEMMA ReceivePromised ==
  ASSUME OInv, ~UB,
         \/ LoopTop \/ ParkOrGo \/ CheckConnection \/ RecvNull \/ SpuriousUnpark
         \/ RecvTimeout \/ (\E p \in Packets : Recv(p)) \/ Gate \/ DispatchBegin
  PROVE  Promise!DispatcherNext \/ UNCHANGED Mapped
<1> USE DEF objVars, threadVars, DispatchPcs, Waiting, Promise!bufferVars, Promise!callVars
<1>1. /\ wpc \notin DispatchPcs /\ UNCHANGED <<list, deactivate, tpc, tPkt>>
      /\ \A t \in Threads : tpc'[t] # "wild"
  BY DEF LoopTop, ParkOrGo, CheckConnection, RecvNull, SpuriousUnpark, RecvTimeout, Recv, Gate,
     DispatchBegin, GoTo, Jump, UB
<1>2. ASSUME wpc' \notin DispatchPcs PROVE Stage' = Stage
  BY <1>1, <1>2, NothingAhead, SameStage DEF StillAhead
<1>3. CASE LoopTop \/ ParkOrGo \/ CheckConnection \/ SpuriousUnpark
  <2>1. /\ wpc' \notin {"wild"} \cup DispatchPcs /\ wpc # "recv"
        /\ Undispatched' = Undispatched /\ UNCHANGED pRecv
    BY <1>3 DEF LoopTop, ParkOrGo, CheckConnection, SpuriousUnpark, GoTo, Jump, Undispatched
  <2>2. CASE wpc' = "recv"
    <3>1. UB' = UB
      BY <1>1, <2>1 DEF UB
    <3>2. Promise!BeginReceive
      BY <1>1, <1>2, <2>1, <2>2, <3>1 DEF Promise!BeginReceive
    <3> QED BY <3>2 DEF Promise!DispatcherNext
  <2>3. CASE wpc' # "recv"
    BY <1>1, <1>2, <2>1, <2>3, QuietStep DEF Receiving
  <2> QED BY <2>2, <2>3
<1>4. CASE RecvNull
  <2>1. /\ wpc' = "wild" /\ Undispatched' = Undispatched /\ UNCHANGED pRecv
    BY <1>4 DEF RecvNull, GoTo, Jump, Undispatched
  <2>2. Promise!Stray
    BY <1>1, <1>2, <2>1 DEF Promise!Stray, UB
  <2> QED BY <2>2 DEF Promise!DispatcherNext
<1>5. CASE RecvTimeout \/ \E p \in Packets : Recv(p)
  <2>1. wpc' = "gate" /\ wpc = "recv"
    BY <1>5 DEF RecvTimeout, Recv
  <2>2. Undispatched' = Undispatched /\ pRecv' \in Undispatched \cup {Empty}
    BY <1>5, ConstAssumption DEF RecvTimeout, Recv, Undispatched
  <2>3. UB' = UB
    BY <1>1, <2>1 DEF UB
  <2>4. Promise!EndReceive
    BY <1>1, <1>2, <2>1, <2>2, <2>3 DEF Promise!EndReceive
  <2> QED BY <2>4 DEF Promise!DispatcherNext
<1>6. CASE Gate
  <2>1. wpc = "gate" /\ UNCHANGED <<link, pRecv>> /\ pRecv \notin link
    BY <1>6 DEF Gate, GoTo, Jump, OInv, IInv, PacketsFresh
  <2>2. CASE wpc' = "accepted"
    <3>1. Undispatched' = Undispatched
      BY <2>1, <2>2 DEF Undispatched
    <3> QED BY <1>1, <1>2, <2>1, <2>2, <3>1, QuietStep DEF Receiving
  <2>3. CASE wpc' = "top" /\ pRecv = Empty
    <3>1. Undispatched' = Undispatched
      BY <2>1, <2>3 DEF Undispatched
    <3> QED BY <1>1, <1>2, <2>1, <2>3, <3>1, QuietStep DEF Receiving
  <2>4. CASE wpc' = "top" /\ pRecv # Empty /\ deactivate
    <3>1. pRecv \in Packets /\ Undispatched = link \cup {pRecv} /\ Undispatched' = link
      BY <2>1, <2>4 DEF Undispatched, OInv, IInv, TypeOK
    <3>2. UB' = UB
      BY <1>1, <2>4 DEF UB
    <3>3. Promise!Drop(pRecv)
      BY <1>1, <1>2, <2>1, <2>4, <3>1, <3>2 DEF Promise!Drop
    <3> QED BY <3>1, <3>3 DEF Promise!DispatcherNext
  <2> QED BY <1>6, <2>2, <2>3, <2>4 DEF Gate, GoTo, Jump
<1>7. CASE DispatchBegin
  <2>1. /\ wpc = "accepted" /\ wpc' = "scan" /\ it' = 1 /\ UNCHANGED <<link, pRecv>>
        /\ pRecv \in Packets /\ pRecv \notin link /\ pRecv # Empty
    BY <1>7, ConstAssumption DEF DispatchBegin, OInv, IInv, PacketsFresh, Handshake
  <2>2. Undispatched = link \cup {pRecv} /\ Undispatched' = link
    BY <2>1 DEF Undispatched
  <2>3. UB' = UB
    BY <1>1, <2>1 DEF UB
  <2>4. DOMAIN list = 1..Len(list)
    BY LenProperties DEF OInv, IInv, TypeOK
  <2>5. ASSUME NEW t \in Threads
        PROVE  StillAhead(t)' <=> /\ t[1] = pRecv /\ t[2] \in ToSet(list)
                                  /\ PktChan[pRecv] = CbChan[t[2]]
    BY <1>1, <2>1, <2>4 DEF StillAhead, Matches, ToSet
  <2>6. \A t \in Threads : t[1] = pRecv => tpc[t] = "none"
    BY <2>1 DEF OInv, IInv, PacketsFresh
  <2>7. ASSUME NEW t \in Threads
        PROVE  Stage'[t] = IF /\ t[1] = pRecv /\ t[2] \in ToSet(list)
                              /\ PktChan[pRecv] = CbChan[t[2]]
                           THEN "due" ELSE Stage[t]
    BY <1>1, <2>5, <2>6, NothingAhead DEF Stage, DuePcs
  <2>8. Promise!Calls = Threads
    BY DEF Promise!Calls, Threads
  <2>9. Stage' = [t \in Threads |->
                   IF t[1] = pRecv /\ t[2] \in ToSet(list) /\ PktChan[pRecv] = CbChan[t[2]]
                   THEN "due" ELSE Stage[t]]
    BY <2>7 DEF Stage
  <2>10. Promise!Dispatch(pRecv)
    BY <1>1, <2>1, <2>2, <2>3, <2>8, <2>9 DEF Promise!Dispatch
  <2> QED BY <2>1, <2>10 DEF Promise!DispatcherNext
<1> QED BY <1>3, <1>4, <1>5, <1>6, <1>7

\* The loop itself cannot be seen: what it spawns was due, and it passes nothing by that is.
LEMMA LoopUnseen ==
  ASSUME OInv, ~UB,
         \/ DispatchEnd \/ SkipCallback \/ SpawnCallback \/ AwaitIterator \/ Reblock
         \/ SpuriousHandshake
  PROVE  UNCHANGED Mapped
<1> USE DEF objVars, threadVars, DispatchPcs, Waiting
<1>1. /\ tpc \in [Threads -> TPcs] /\ it \in Nat \ {0} /\ Len(list) \in Nat
      /\ DOMAIN list = 1..Len(list)
  BY LenProperties DEF OInv, IInv, TypeOK
<1>2. /\ wpc \in DispatchPcs /\ wpc' \in {"top"} \cup DispatchPcs
      /\ UNCHANGED <<list, deactivate, link, pRecv, tPkt>>
  BY DEF DispatchEnd, SkipCallback, SpawnCallback, AwaitIterator, Reblock, SpuriousHandshake, GoTo, Jump
<1>3. Undispatched' = Undispatched
  BY <1>2 DEF Undispatched
<1>4. ASSUME UNCHANGED tpc, Stage' = Stage PROVE UNCHANGED Mapped
  <2>1. \A t \in Threads : tpc'[t] # "wild"
    BY <1>4 DEF UB
  <2> QED BY <1>2, <1>3, <1>4, <2>1, QuietStep DEF Receiving
<1>5. CASE DispatchEnd
  <2>1. it > Len(list) /\ wpc' = "top" /\ UNCHANGED tpc
    BY <1>5 DEF DispatchEnd, AtEnd, GoTo, Jump
  <2>2. \A t \in Threads : ~StillAhead(t) /\ ~StillAhead(t)'
    BY <1>1, <2>1 DEF StillAhead
  <2> QED BY <1>4, <2>1, <2>2, SameStage
<1>6. CASE Reblock \/ SpuriousHandshake \/ (AwaitIterator /\ UNCHANGED it)
  <2>1. UNCHANGED <<tpc, it>> /\ wpc' \in DispatchPcs
    BY <1>6 DEF Reblock, SpuriousHandshake, AwaitIterator, GoTo, Jump
  <2>2. \A t \in Threads : StillAhead(t)' <=> StillAhead(t)
    BY <1>2, <2>1 DEF StillAhead
  <2> QED BY <1>4, <2>1, <2>2, SameStage
\* The iterator advances past a node that does not match, or whose thread has been spawned.
<1>7. ASSUME NEW t \in Threads, it' = it + 1, wpc' = "scan",
             ~(t[1] = pRecv /\ Matches(pRecv, t[2]) /\ it \in DOMAIN list /\ list[it] = t[2])
      PROVE  StillAhead(t)' <=> StillAhead(t)
  <2>1. \A i \in it..Len(list) : i = it \/ i \in (it + 1)..Len(list)
    BY <1>1
  <2>2. it <= Len(list) => it \in DOMAIN list
    BY <1>1
  <2> QED BY <1>1, <1>2, <1>7, <2>1, <2>2 DEF StillAhead
<1>8. CASE SkipCallback
  <2>1. it' = it + 1 /\ wpc' = "scan" /\ ~Matches(pRecv, list[it]) /\ UNCHANGED tpc
    BY <1>8 DEF SkipCallback
  <2>2. \A t \in Threads : StillAhead(t)' <=> StillAhead(t)
    BY <1>7, <2>1
  <2> QED BY <1>4, <2>1, <2>2, SameStage
<1>9. CASE AwaitIterator /\ it' # it
  <2>1. it' = it + 1 /\ wpc' = "scan" /\ wpc = "recheck" /\ UNCHANGED tpc
    BY <1>9 DEF AwaitIterator
  <2>2. tpc[<<pRecv, list[it]>>] # "none"
    BY <2>1 DEF OInv, InOrder
  <2>3. ASSUME NEW t \in Threads, tpc[t] = "none" PROVE StillAhead(t)' <=> StillAhead(t)
    <3>1. t = <<t[1], t[2]>>
      BY DEF Threads
    <3> QED BY <1>7, <2>1, <2>2, <2>3, <3>1
  <2>4. Stage' = Stage
    BY <2>1, <2>3 DEF Stage
  <2> QED BY <1>4, <2>1, <2>4
<1>10. CASE SpawnCallback
  <2> DEFINE s == <<pRecv, list[it]>>
  <2>1. /\ s \in Threads /\ tpc[s] = "none" /\ it \in DOMAIN list
        /\ s[1] = pRecv /\ s[2] = list[it] /\ Matches(pRecv, list[it])
    BY <1>10, SpawnedOnce DEF SpawnCallback
  <2>2. /\ tpc' = [tpc EXCEPT ![s] = "lock"] /\ wpc' \in {"scan", "blocked"}
        /\ it' = it \/ (it' = it + 1 /\ wpc' = "scan")
    BY <1>10 DEF SpawnCallback
  <2>3. tpc'[s] = "lock" /\ \A t \in Threads : t # s => tpc'[t] = tpc[t]
    BY <1>1, <2>1, <2>2
  <2>4. StillAhead(s)
    BY <1>1, <1>2, <2>1 DEF StillAhead
  <2>5. ASSUME NEW t \in Threads, t # s PROVE StillAhead(t)' <=> StillAhead(t)
    <3>1. ~(t[1] = pRecv /\ list[it] = t[2])
      BY <2>5 DEF Threads
    <3>2. CASE it' = it
      BY <1>2, <2>2, <3>2 DEF StillAhead
    <3>3. CASE it' = it + 1 /\ wpc' = "scan"
      BY <1>7, <3>1, <3>3
    <3> QED BY <2>2, <3>2, <3>3
  <2> HIDE DEF s
  <2>6. \A t \in Threads : Stage'[t] = Stage[t]
    BY <2>1, <2>3, <2>4, <2>5 DEF Stage, DuePcs
  <2>7. Stage' = Stage
    BY <2>6 DEF Stage
  <2>8. \A t \in Threads : tpc'[t] # "wild"
    BY <2>3 DEF UB
  <2>9. wpc' # "wild"
    BY <2>2
  <2> QED BY <1>2, <1>3, <2>7, <2>8, <2>9, QuietStep DEF Receiving
<1> QED BY <1>5, <1>6, <1>8, <1>9, <1>10

\* How a step of thread t moves its call.
LEMMA ThreadStage ==
  ASSUME OInv, NEW t \in Threads, NEW pc \in TPcs, Step(t, tpc[t], pc),
         tpc[t] # "none", pc # "none",
         \A u \in Threads : StillAhead(u)' <=> StillAhead(u)
  PROVE  Stage' = [Stage EXCEPT ![t] = IF pc \in DuePcs THEN "due" ELSE pc]
<1>1. /\ tpc \in [Threads -> TPcs] /\ tpc' = [tpc EXCEPT ![t] = pc]
  BY DEF Step, OInv, IInv, TypeOK
<1>2. tpc'[t] = pc /\ \A u \in Threads : u # t => tpc'[u] = tpc[u]
  BY <1>1
<1>3. Stage'[t] = IF pc \in DuePcs THEN "due" ELSE pc
  BY <1>2 DEF Stage
<1>4. \A u \in Threads : u # t => Stage'[u] = Stage[u]
  BY <1>2 DEF Stage
<1> QED BY <1>3, <1>4 DEF Stage

\* A callback thread's steps: the handshake cannot be seen, the call and its end can.
LEMMA ThreadPromised ==
  ASSUME OInv, NEW t \in Threads, Thread(t)
  PROVE  Promise!DispatcherNext \/ UNCHANGED Mapped
<1> USE DEF objVars, workerVars, OwnStepOnly, Promise!bufferVars, Receiving
<1>1. /\ ~UB /\ tpc[t] \notin {"none", "erased", "done", "wild"} /\ tpc \in [Threads -> TPcs]
      /\ UNCHANGED <<deactivate, link, pRecv, it>>
      /\ wpc' = wpc \/ (wpc = "blocked" /\ wpc' = "recheck")
      /\ list' = list \/ wpc \notin DispatchPcs
      /\ Promise!Calls = Threads
  BY DEF Thread, CopyIterator, CopyFromDeadFrame, FinishIterator, NotifyIterator, CallCallback,
     ReturnFromCallback, EraseCallback, CallbackMutexIsFree, Step, OInv, IInv, TypeOK,
     Promise!Calls, Threads
<1>2. \A u \in Threads : StillAhead(u)' <=> StillAhead(u)
  BY <1>1 DEF StillAhead, DispatchPcs, Waiting
<1>3. Undispatched' = Undispatched
  BY <1>1 DEF Undispatched
<1>4. tpc[t] \in PastCopy => tIt[t] = t[2]
  BY DEF OInv, IInv, OwnIterator
<1>5. wpc' # "wild" /\ \A u \in Threads : tpc[u] # "wild"
  BY <1>1 DEF UB
<1>6. Stage[t] = IF tpc[t] \in DuePcs THEN "due" ELSE tpc[t]
  BY <1>1 DEF Stage
\* A step that ends in the state "wild".
<1>7. ASSUME Step(t, tpc[t], "wild"), UNCHANGED <<list, tPkt>> PROVE Promise!DispatcherNext
  <2>1. Stage' = [Stage EXCEPT ![t] = "wild"]
    BY <1>1, <1>2, <1>7, ThreadStage DEF TPcs, DuePcs
  <2>2. Stage[t] \in {"due", "calling", "refused"}
    BY <1>1, <1>6 DEF TPcs, DuePcs
  <2>3. tpc'[t] = "wild"
    BY <1>1, <1>7 DEF Step
  <2>4. UB'
    BY <2>3 DEF UB
  <2>5. Promise!Stray
    BY <1>1, <1>3, <1>7, <2>1, <2>2, <2>4 DEF Promise!Stray, UB
  <2> QED BY <1>1, <2>5 DEF Promise!DispatcherNext
\* A step to any other state leaves the behaviour defined.
<1>8. ASSUME NEW pc \in TPcs \ {"wild"}, Step(t, tpc[t], pc) PROVE UB' = UB
  <2>1. \A u \in Threads : tpc'[u] # "wild"
    BY <1>1, <1>5, <1>8 DEF Step
  <2> QED BY <1>1, <1>5, <2>1 DEF UB
\* A step of the handshake.
<1>9. ASSUME NEW pc \in DuePcs, Step(t, tpc[t], pc), tpc[t] \in DuePcs, UNCHANGED <<list, tPkt>>
      PROVE  UNCHANGED Mapped
  <2>1. pc \in TPcs \ {"wild"} /\ pc # "none"
    BY DEF DuePcs, TPcs
  <2>2. Stage' = [Stage EXCEPT ![t] = "due"]
    BY <1>1, <1>2, <1>9, <2>1, ThreadStage
  <2>3. Stage' = Stage
    BY <1>6, <1>9, <2>2 DEF Stage
  <2> QED BY <1>1, <1>3, <1>8, <1>9, <2>1, <2>3 DEF Mapped
<1>10. CASE CopyIterator(t) \/ CopyFromDeadFrame(t) \/ FinishIterator(t) \/ NotifyIterator(t)
  BY <1>7, <1>9, <1>10
  DEF CopyIterator, CopyFromDeadFrame, FinishIterator, NotifyIterator, Step, DuePcs
<1>11. CASE CallCallback(t)
  <2>1. UNCHANGED list /\ tpc[t] = "ready" /\ tIt[t] = t[2]
    BY <1>4, <1>11 DEF CallCallback, Step, PastCopy
  <2>2. CASE /\ Listed(tIt[t]) /\ Step(t, "ready", "calling")
             /\ \E p \in {pRecv} \cup (IF wpc = "recv" THEN {Torn} ELSE {}) :
                   tPkt' = [tPkt EXCEPT ![t] = p]
    <3>1. Stage' = [Stage EXCEPT ![t] = "calling"] /\ UB' = UB
      BY <1>1, <1>2, <1>8, <2>1, <2>2, ThreadStage DEF TPcs, DuePcs
    <3>2. Promise!Call(t)
      BY <1>1, <1>3, <1>6, <2>1, <2>2, <3>1 DEF Promise!Call, Promise!Advance, Listed, DuePcs
    <3> QED BY <1>1, <3>2 DEF Promise!DispatcherNext
  <2>3. CASE Step(t, "ready", "wild") /\ UNCHANGED tPkt
    BY <1>7, <2>1, <2>3
  <2> QED BY <1>11, <2>2, <2>3 DEF CallCallback
<1>12. CASE ReturnFromCallback(t)
  <2>1. UNCHANGED <<list, tPkt>> /\ tpc[t] = "calling" /\ tIt[t] = t[2]
    BY <1>4, <1>12 DEF ReturnFromCallback, Step, PastCopy
  <2>2. CASE Listed(tIt[t]) /\ Step(t, "calling", "done")
    <3>1. Stage' = [Stage EXCEPT ![t] = "done"] /\ UB' = UB
      BY <1>1, <1>2, <1>8, <2>1, <2>2, ThreadStage DEF TPcs, DuePcs
    <3>2. Promise!Keep(t)
      BY <1>1, <1>3, <1>6, <2>1, <2>2, <3>1 DEF Promise!Keep, Promise!Advance, Listed, DuePcs
    <3> QED BY <1>1, <3>2 DEF Promise!DispatcherNext
  <2>3. CASE Listed(tIt[t]) /\ Step(t, "calling", "refused")
    <3>1. Stage' = [Stage EXCEPT ![t] = "refused"] /\ UB' = UB
      BY <1>1, <1>2, <1>8, <2>1, <2>3, ThreadStage DEF TPcs, DuePcs
    <3>2. Promise!Refuse(t)
      BY <1>1, <1>3, <1>6, <2>1, <2>3, <3>1 DEF Promise!Refuse, Promise!Advance, Listed, DuePcs
    <3> QED BY <1>1, <3>2 DEF Promise!DispatcherNext
  <2>4. CASE Step(t, "calling", "wild")
    BY <1>7, <2>1, <2>4
  <2> QED BY <1>12, <2>2, <2>3, <2>4 DEF ReturnFromCallback
<1>13. CASE EraseCallback(t)
  <2>1. tpc[t] = "refused" /\ tIt[t] = t[2] /\ UNCHANGED tPkt
    BY <1>4, <1>13 DEF EraseCallback, Step, PastCopy
  <2>2. ASSUME NEW i \in DOMAIN list, list[i] = tIt[t], list' = RemoveAt(list, i),
               Step(t, "refused", "erased")
        PROVE  Promise!DispatcherNext
    <3>1. Stage' = [Stage EXCEPT ![t] = "erased"] /\ UB' = UB
      BY <1>1, <1>2, <1>8, <2>1, <2>2, ThreadStage DEF TPcs, DuePcs
    <3>2. ToSet(list') = ToSet(list) \ {t[2]} /\ t[2] \in ToSet(list)
      <4>1. list \in Seq(Callbacks) /\ Injective(list)
        BY DEF OInv, IInv, TypeOK, ListOK, Injective
      <4>2. ToSet(RemoveAt(list, i)) = ToSet(list) \ {list[i]} /\ list[i] \in ToSet(list)
        BY <4>1, RemoveNode DEF ToSet
      <4> QED BY <2>1, <2>2, <4>2
    <3>3. Promise!Erase(t)
      BY <1>1, <1>3, <1>6, <2>1, <3>1, <3>2 DEF Promise!Erase, Promise!Advance, DuePcs
    <3> QED BY <1>1, <3>3 DEF Promise!DispatcherNext
  <2>3. CASE Step(t, "refused", "wild") /\ UNCHANGED list
    BY <1>7, <2>1, <2>3
  <2> QED BY <1>13, <2>2, <2>3 DEF EraseCallback
<1> QED BY <1>10, <1>11, <1>12, <1>13 DEF Thread

\* For any callbacks and packets, with spurious wake-ups or without, a dispatch is one step
\* to the clients: every callback that is registered for the packet's channel when the loop
\* takes the lock is due a call, gets at most one, and no other callback is due any.  The
\* call is given the packet if it copies its argument before the next reception begins.
THEOREM WorkerDispatchIsAtomic == Spec => DispatchIsAtomic
<1>1. Init => Promise!DispatcherInit
  <2> SUFFICES ASSUME Init PROVE Promise!DispatcherInit
    OBVIOUS
  <2>1. /\ \A t \in Threads : tpc[t] = "none" /\ ~StillAhead(t)
        /\ wpc = "top" /\ list = <<>> /\ link = Packets
    BY DEF Init, StillAhead, DispatchPcs, Waiting
  <2>2. ToSet(list) = {} /\ Undispatched = Packets /\ ~UB
    BY <2>1 DEF ToSet, Undispatched, UB
  <2>3. Stage = [t \in Promise!Calls |-> "none"]
    BY <2>1 DEF Stage, DuePcs, Promise!Calls, Threads
  <2>4. deactivate \in BOOLEAN
    BY DEF Init
  <2>5. pRecv = Empty /\ (wpc = "recv") = FALSE /\ tPkt = [t \in Promise!Calls |-> Empty]
    BY DEF Init, Promise!Calls, Threads
  <2> QED BY <2>2, <2>3, <2>4, <2>5 DEF Promise!DispatcherInit
<1>2. Init => OInv
  BY InitInv DEF OInv, InOrder, Init, Waiting
<1>3. OInv /\ [Next]_vars => OInv'
  BY StepInv, OrderStep DEF OInv
<1>4. OInv /\ [Next]_vars => [Promise!DispatcherNext]_(Promise!dispatcherVars)
  <2> SUFFICES ASSUME OInv, [Next]_vars PROVE Promise!DispatcherNext \/ UNCHANGED Mapped
    BY DEF Promise!dispatcherVars, Promise!bufferVars, Promise!callVars, Receiving, Mapped
  <2>1. CASE Worker \/ Spurious
    BY <2>1, ReceivePromised, LoopUnseen DEF Worker, Spurious
  <2>2. CASE UNCHANGED vars
    <3>1. Stage' = Stage /\ Undispatched' = Undispatched /\ UB' = UB
      BY <2>2 DEF vars, workerVars, threadVars, Stage, StillAhead, Undispatched, UB
    <3> QED BY <2>2, <3>1 DEF vars, objVars, workerVars, threadVars, Receiving, Mapped
  <2> QED BY <2>1, <2>2, ApiPromised, ThreadPromised DEF Next
<1> QED BY <1>1, <1>2, <1>3, <1>4, PTL DEF Spec, DispatchIsAtomic, Promise!DispatcherSpec
=============================================================================
