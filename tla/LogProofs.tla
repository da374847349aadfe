------------------------------ MODULE LogProofs ------------------------------
(***************************************************************************)
(* The cache of Log.cpp agrees with the Crazyflie, for every number of     *)
(* ids, items and item lists.  While a request is under way the cache is   *)
(* behind the Crazyflie by exactly that request; what the answer will mean *)
(* when it is read is the invariant Served.                                *)
(***************************************************************************)
EXTENDS Log, TLAPS, SequenceTheorems

Creates == {"createAny", "createAt"}

\* An answer that waits to be read tells the truth about the block it is about.
Served ==
  msg = "answered" =>
    /\ (op.kind \in Creates \cup {"append", "start"} /\ code = SUCCESS
          /\ "reboot" \notin faults) => blocks[op.id] # NoBlock
    /\ (op.kind \in Creates /\ code = SUCCESS) => blocks[op.id] \in {NoBlock, <<op.item>>}
    /\ (op.kind \in Creates /\ code = EEXIST /\ "reboot" \notin faults)
          => blocks[op.id] # NoBlock
    /\ (op.kind = "delete" /\ code \in {SUCCESS, ENOENT}) => blocks[op.id] = NoBlock
    /\ (op.kind = "reset" /\ code = SUCCESS) => \A i \in Ids : blocks[i] = NoBlock
    /\ (op.kind = "reset" /\ code # SUCCESS) => "reset" \in faults

\* What the calls have checked before they sent their request.
Asked ==
  op # NoOp =>
    /\ op.kind \in Creates => idsOccupied[op.id] # "OCCUPIED" /\ op.item \in Items
    /\ op.kind = "append" => op.item \in Items

\* A list that the library holds is of a block it holds for taken, unless a reset has
\* failed, and of a block of the Crazyflie, unless it has rebooted.
Backed ==
  \A i \in Ids : logBlocks[i] # NoBlock =>
    /\ "reset" \notin faults => idsOccupied[i] = "OCCUPIED"
    /\ "reboot" \notin faults => blocks[i] # NoBlock \/ Unread({"delete", "reset"}, i)

\* The loop of createLogBlock has left only ids with a block behind.
Probed ==
  (op # NoOp /\ op.kind = "createAny" /\ "reboot" \notin faults) =>
    \A j \in 0..(op.id - 1) : blocks[j] # NoBlock

IInv == /\ LogTypeOK /\ Served /\ Asked /\ Backed /\ Probed
        /\ OccupiedIsOnFirmware /\ FreeIsNotOnFirmware /\ ListMatchesFirmware

-----------------------------------------------------------------------------
(* Suffixes.                                                               *)

\* A list is a suffix of itself, and the empty list of any list.
LEMMA SuffixTrivial ==
  ASSUME NEW S, NEW s \in Seq(S)
  PROVE  SuffixOf(s, s) /\ SuffixOf(<<>>, s)
BY LenProperties, EmptySeq DEF SuffixOf

\* push_back on both sides keeps a suffix a suffix.
LEMMA SuffixAppend ==
  ASSUME NEW S, NEW s \in Seq(S), NEW t \in Seq(S), NEW x \in S, SuffixOf(s, t)
  PROVE  SuffixOf(Append(s, x), Append(t, x))
<1> DEFINE r == Append(s, x)
           u == Append(t, x)
<1>1. /\ Len(s) \in Nat /\ Len(t) \in Nat /\ Len(s) <= Len(t)
      /\ Len(r) = Len(s) + 1 /\ Len(u) = Len(t) + 1
      /\ \A k \in 1..Len(s) : r[k] = s[k]
      /\ \A k \in 1..Len(t) : u[k] = t[k]
      /\ r[Len(s) + 1] = x /\ u[Len(t) + 1] = x
  BY LenProperties, AppendProperties DEF SuffixOf
<1> HIDE DEF r, u
<1>2. ASSUME NEW k \in 1..Len(r) PROVE r[k] = u[Len(u) - Len(r) + k]
  <2>1. CASE k \in 1..Len(s)
    <3>1. Len(t) - Len(s) + k \in 1..Len(t) /\ Len(u) - Len(r) + k = Len(t) - Len(s) + k
      BY <2>1, <1>1
    <3>2. s[k] = t[Len(t) - Len(s) + k]
      BY <2>1 DEF SuffixOf
    <3> QED BY <2>1, <3>1, <3>2, <1>1
  <2>2. CASE k = Len(s) + 1
    BY <2>2, <1>1
  <2> QED BY <2>1, <2>2, <1>1
<1>3. SuffixOf(r, u)
  BY <1>1, <1>2 DEF SuffixOf
<1> QED BY <1>3 DEF r, u

-----------------------------------------------------------------------------
(* The inductive invariant.                                                *)

\* The library starts with nothing it believes in.
THEOREM LogInitInv == LogInit => IInv
<1> SUFFICES ASSUME LogInit PROVE IInv
  OBVIOUS
<1>1. LogTypeOK
  <2>1. blocks \in [Ids -> BlockLists]
    <3>1. \A x \in Items : <<x>> \in Seq(Items)
      OBVIOUS
    <3>2. {NoBlock} \cup {<<x>> : x \in LeftOver} \subseteq BlockLists
      BY <3>1, LogAssumption DEF BlockLists
    <3> QED BY <3>2 DEF LogInit
  <2> QED BY <2>1 DEF LogInit, LogTypeOK, BlockLists, SUCCESS
<1>2. Served /\ Asked /\ Backed /\ Probed
  BY DEF LogInit, Served, Asked, Backed, Probed
<1>3. OccupiedIsOnFirmware /\ FreeIsNotOnFirmware /\ ListMatchesFirmware
  BY DEF LogInit, OccupiedIsOnFirmware, FreeIsNotOnFirmware, ListMatchesFirmware, Mine, Unread
<1> QED BY <1>1, <1>2, <1>3 DEF IInv

\* What a call changes: nothing but op, if it asks the Crazyflie.
LEMMA RequestInv ==
  ASSUME IInv, op = NoOp \/ (msg = "answered" /\ op.kind = "createAny" /\ code # SUCCESS),
         NEW kind \in Kinds, NEW i \in Ids, NEW x \in Items \cup {NoItem},
         Request(kind, i, x),
         kind \in Creates => idsOccupied[i] # "OCCUPIED" /\ x \in Items,
         kind = "append" => x \in Items,
         (kind = "createAny" /\ "reboot" \notin faults) =>
            \A j \in 0..(i - 1) : blocks[j] # NoBlock
  PROVE  IInv'
<1>1. /\ op' = [kind |-> kind, id |-> i, item |-> x] /\ op' \in Ops /\ op' # NoOp
      /\ op'.kind = kind /\ op'.id = i /\ op'.item = x
      /\ msg' = "sent" /\ result' = SUCCESS
      /\ UNCHANGED <<idsOccupied, logBlocks, blocks, code, faults>>
      /\ msg # "sent"
  BY LogAssumption DEF Request, fwVars, Ops, IInv, LogTypeOK
<1>2. LogTypeOK'
  BY <1>1 DEF IInv, LogTypeOK, SUCCESS
<1>3. Served' /\ Asked' /\ Backed' /\ Probed'
  BY <1>1 DEF IInv, Served, Asked, Backed, Probed, Unread, LogTypeOK
<1>4. OccupiedIsOnFirmware' /\ FreeIsNotOnFirmware' /\ ListMatchesFirmware'
  BY <1>1 DEF IInv, OccupiedIsOnFirmware, FreeIsNotOnFirmware, ListMatchesFirmware, Mine,
     Unread, LogTypeOK
<1> QED BY <1>2, <1>3, <1>4 DEF IInv

\* A refused call, and a call that returns an error, change nothing but the result.
LEMMA RefuseInv ==
  ASSUME IInv, NEW r \in Int, Refuse(r),
         msg = "answered" => \/ op.kind \notin {"delete", "reset"} /\ code # SUCCESS
                             \/ op.kind \in {"start", "stop"}
                             \/ op.kind = "delete" /\ code \notin {SUCCESS, ENOENT},
         msg # "sent"
  PROVE  IInv'
<1>1. /\ op' = NoOp /\ msg' = "none" /\ result' = r /\ code' = SUCCESS
      /\ UNCHANGED <<idsOccupied, logBlocks, blocks, faults>>
  BY DEF Refuse, Return
<1>2. LogTypeOK'
  BY <1>1 DEF IInv, LogTypeOK, SUCCESS
<1>3. Served' /\ Asked' /\ Backed' /\ Probed'
  BY <1>1 DEF IInv, Served, Asked, Backed, Probed, Unread, LogTypeOK, SUCCESS
<1>4. OccupiedIsOnFirmware' /\ FreeIsNotOnFirmware' /\ ListMatchesFirmware'
  BY <1>1 DEF IInv, OccupiedIsOnFirmware, FreeIsNotOnFirmware, ListMatchesFirmware, Mine,
     Unread, LogTypeOK, SUCCESS, Creates, Served
<1> QED BY <1>2, <1>3, <1>4 DEF IInv

\* The search of createLogBlock keeps the invariant, if every id before i has a block.
LEMMA TryFromInv ==
  ASSUME IInv, NEW i \in 0..IdCount, NEW x \in Items, TryFrom(i, x),
         op = NoOp \/ (msg = "answered" /\ op.kind = "createAny" /\ code # SUCCESS),
         "reboot" \notin faults => \A j \in 0..(i - 1) : blocks[j] # NoBlock
  PROVE  IInv'
<1>0. \A j \in Ids : (idsOccupied[j] = "OCCUPIED" /\ "reboot" \notin faults) => blocks[j] # NoBlock
  BY DEF IInv, OccupiedIsOnFirmware, Unread, LogTypeOK
<1>1. CASE Taken(i..(IdCount - 1)) /\ Refuse(-GENERIC)
  <2>1. -GENERIC \in Int /\ msg # "sent"
    BY DEF GENERIC, IInv, LogTypeOK
  <2> QED BY <1>1, <2>1, RefuseInv DEF IInv, LogTypeOK
<1>2. ASSUME NEW j \in i..(IdCount - 1), ~Taken({j}), Taken(i..(j - 1)),
             Request("createAny", j, x)
      PROVE  IInv'
  <2>1. j \in Ids /\ idsOccupied[j] # "OCCUPIED"
    BY <1>2, LogAssumption DEF Ids, Taken
  <2>2. "reboot" \notin faults => \A k \in 0..(j - 1) : blocks[k] # NoBlock
    <3> SUFFICES ASSUME "reboot" \notin faults, NEW k \in 0..(j - 1) PROVE blocks[k] # NoBlock
      OBVIOUS
    <3>1. CASE k < i
      BY <3>1
    <3>2. CASE k >= i
      <4>1. k \in Ids /\ k \in i..(j - 1)
        BY <3>2, <2>1, LogAssumption DEF Ids
      <4> QED BY <4>1, <1>2, <1>0 DEF Taken
    <3> QED BY <3>1, <3>2
  <2> QED BY <1>2, <2>1, <2>2, RequestInv DEF Kinds, Creates
<1> QED BY <1>1, <1>2 DEF TryFrom

\* A call keeps the invariant, whether it asks the Crazyflie or refuses.
LEMMA CallsInv == ASSUME IInv, Calls PROVE IInv'
<1>0. op = NoOp /\ msg = "none" /\ -GENERIC \in Int
  BY DEF IInv, LogTypeOK, Calls, resetLogBlocks, createLogBlock, deleteLogBlock, startLogBlock,
     stopLogBlock, createLogBlockAt, appendLogBlock, AskUnlessFree, GENERIC
<1>1. CASE resetLogBlocks
  <2>1. 0 \in Ids
    BY LogAssumption DEF Ids
  <2> QED BY <1>0, <1>1, <2>1, RequestInv DEF resetLogBlocks, Kinds, Creates
<1>2. ASSUME NEW x \in Items, createLogBlock(x) PROVE IInv'
  BY <1>0, <1>2, TryFromInv, LogAssumption DEF createLogBlock
<1>3. ASSUME NEW kind \in {"append", "delete", "start", "stop"}, NEW i \in Ids,
             NEW x \in Items \cup {NoItem}, kind = "append" => x \in Items,
             AskUnlessFree(kind, i, x)
      PROVE  IInv'
  <2>1. CASE Request(kind, i, x)
    <3>1. kind \in Kinds /\ kind \notin Creates /\ kind # "createAny"
      BY DEF Kinds, Creates
    <3> QED BY <1>0, <1>3, <2>1, <3>1, RequestInv
  <2>2. CASE Refuse(-GENERIC)
    BY <1>0, <2>2, RefuseInv
  <2> QED BY <1>3, <2>1, <2>2 DEF AskUnlessFree
<1>4. ASSUME NEW i \in Ids, NEW x \in Items, createLogBlockAt(i, x) PROVE IInv'
  <2>1. CASE idsOccupied[i] # "OCCUPIED"
    BY <1>0, <1>4, <2>1, RequestInv DEF createLogBlockAt, Kinds, Creates
  <2>2. CASE ~(idsOccupied[i] # "OCCUPIED")
    BY <1>0, <1>4, <2>2, RefuseInv DEF createLogBlockAt
  <2> QED BY <2>1, <2>2
<1> QED BY <1>1, <1>2, <1>3, <1>4
        DEF Calls, deleteLogBlock, startLogBlock, stopLogBlock, appendLogBlock

\* A reboot can only make the claims about the Crazyflie's blocks void.
LEMMA RebootInv == ASSUME IInv, Reboot PROVE IInv'
<1>1. /\ UNCHANGED <<idsOccupied, logBlocks, op, msg, result, code>>
      /\ blocks' = [i \in Ids |-> NoBlock] /\ faults' = faults \cup {"reboot"}
  BY DEF Reboot, Fault, libVars
<1>2. LogTypeOK'
  BY <1>1 DEF IInv, LogTypeOK, BlockLists
<1>3. Served' /\ Asked' /\ Backed' /\ Probed'
  <2>1. op # NoOp => op.id \in Ids
    BY DEF IInv, LogTypeOK, Ops
  <2> QED BY <1>1, <2>1 DEF IInv, Served, Asked, Backed, Probed, LogTypeOK
<1>4. OccupiedIsOnFirmware' /\ FreeIsNotOnFirmware' /\ ListMatchesFirmware'
  BY <1>1 DEF IInv, OccupiedIsOnFirmware, FreeIsNotOnFirmware, ListMatchesFirmware
<1> QED BY <1>2, <1>3, <1>4 DEF IInv

-----------------------------------------------------------------------------
(* The answers.                                                            *)

\* What the operations do with a successful answer: the cache follows the block.
LEMMA CreatedInv ==
  ASSUME IInv, op # NoOp, msg = "answered", op.kind \in Creates, code = SUCCESS,
         Return(op.id), Insert(op.id, <<op.item>>), SetOccupied("OCCUPIED")
  PROVE  IInv'
<1>0. op.id \in Ids /\ op.item \in Items /\ op.id \in Int
  BY LogAssumption DEF IInv, LogTypeOK, Asked, Ops, Ids
<1>a. <<op.item>> \in BlockLists /\ <<op.item>> # NoBlock
  <2>1. <<op.item>> \in Seq(Items)
    BY <1>0
  <2> QED BY <2>1, LogAssumption DEF BlockLists
<1>1. /\ op' = NoOp /\ msg' = "none" /\ result' = op.id /\ code' = SUCCESS
      /\ UNCHANGED <<blocks, faults>>
      /\ op.id \in Ids /\ op.item \in Items /\ <<op.item>> \in BlockLists /\ op.id \in Int
      /\ <<op.item>> # NoBlock
  BY <1>0, <1>a DEF Return
<1>2. /\ idsOccupied' = [idsOccupied EXCEPT ![op.id] = "OCCUPIED"]
      /\ logBlocks' \in [Ids -> BlockLists]
      /\ \A i \in Ids : i # op.id => logBlocks'[i] = logBlocks[i]
      /\ logBlocks'[op.id] = IF logBlocks[op.id] = NoBlock THEN <<op.item>> ELSE logBlocks[op.id]
  BY <1>1 DEF SetOccupied, Insert, IInv, LogTypeOK
<1>3. LogTypeOK'
  BY <1>1, <1>2 DEF IInv, LogTypeOK, SUCCESS
<1>4. Served' /\ Asked' /\ Backed' /\ Probed'
  BY <1>1, <1>2 DEF IInv, Served, Asked, Backed, Probed, Unread, Creates, LogTypeOK
<1>5. OccupiedIsOnFirmware' /\ FreeIsNotOnFirmware'
  BY <1>1, <1>2 DEF IInv, OccupiedIsOnFirmware, FreeIsNotOnFirmware, Served, Unread, Creates,
     LogTypeOK
<1>6. ListMatchesFirmware'
  <2>1. \A i \in Ids : Mine(i) = logBlocks[i] /\ Mine(i)' = logBlocks'[i]
    BY <1>1 DEF Mine, Unread, Creates
  <2>2. <<op.item>> \in Seq(Items) /\ SuffixOf(<<op.item>>, <<op.item>>)
    <3>1. <<op.item>> \in Seq(Items)
      BY <1>0
    <3> QED BY <3>1, SuffixTrivial
  <2>3. blocks[op.id] \in {NoBlock, <<op.item>>}
    BY DEF IInv, Served
  <2> QED BY <1>1, <1>2, <2>1, <2>2, <2>3 DEF IInv, ListMatchesFirmware
<1> QED BY <1>3, <1>4, <1>5, <1>6 DEF IInv

\* The answer to an append: the item is listed exactly when the Crazyflie has it.
LEMMA AppendedInv == ASSUME IInv, AppendReturn PROVE IInv'
<1>1. CASE code # SUCCESS /\ Failed
  <2>1. -code \in Int
    BY DEF IInv, LogTypeOK, SUCCESS, ENOENT, ENOMEM, EEXIST
  <2> QED BY <1>1, <2>1, RefuseInv DEF AppendReturn, Answered, Failed, Refuse
<1>2. CASE code = SUCCESS
  <2> DEFINE new == Listed(op.id, op.item)
  <2>1. /\ op # NoOp /\ msg = "answered" /\ op.kind = "append"
        /\ op' = NoOp /\ msg' = "none" /\ result' = op.id /\ code' = SUCCESS
        /\ UNCHANGED <<blocks, faults>>
        /\ op.id \in Ids /\ op.item \in Items /\ op.id \in Int
        /\ idsOccupied' = [idsOccupied EXCEPT ![op.id] = "OCCUPIED"]
        /\ logBlocks' = [logBlocks EXCEPT ![op.id] = new]
    BY <1>2 DEF AppendReturn, Failed, Answered, Return, SetOccupied, IInv, LogTypeOK, Asked, Ops, Ids
  <2>2. new \in Seq(Items) /\ new \in BlockLists /\ new # NoBlock
    <3>1. (IF logBlocks[op.id] = NoBlock THEN <<>> ELSE logBlocks[op.id]) \in Seq(Items)
      BY <2>1, EmptySeq DEF IInv, LogTypeOK, BlockLists
    <3> DEFINE old == IF logBlocks[op.id] = NoBlock THEN <<>> ELSE logBlocks[op.id]
    <3>2. new = Append(old, op.item)
      BY DEF Listed
    <3> HIDE DEF old, new
    <3>3. new \in Seq(Items)
      BY <2>1, <3>1, <3>2, AppendProperties DEF old
    <3> QED BY <3>3, LogAssumption DEF BlockLists
  <2> HIDE DEF new
  <2>3. LogTypeOK'
    BY <2>1, <2>2 DEF IInv, LogTypeOK, SUCCESS
  <2>4. Served' /\ Asked' /\ Backed' /\ Probed'
    BY <1>2, <2>1 DEF IInv, Served, Asked, Backed, Probed, Unread, Creates, LogTypeOK
  <2>5. OccupiedIsOnFirmware' /\ FreeIsNotOnFirmware'
    BY <1>2, <2>1 DEF IInv, OccupiedIsOnFirmware, FreeIsNotOnFirmware, Served, Unread, LogTypeOK
  <2>6. ListMatchesFirmware'
    <3>1. \A i \in Ids : Mine(i)' = logBlocks'[i]
      BY <2>1 DEF Mine, Unread
    <3>2. \A i \in Ids : logBlocks'[i] = Mine(i)
      BY <1>2, <2>1 DEF Mine, Unread, new, IInv, LogTypeOK
    <3> QED BY <2>1, <3>1, <3>2 DEF IInv, ListMatchesFirmware
  <2> QED BY <2>3, <2>4, <2>5, <2>6 DEF IInv
<1> QED BY <1>1, <1>2 DEF AppendReturn

\* The answer to a delete: the block is gone on both sides, or is left on both.
LEMMA DeletedInv == ASSUME IInv, DeleteReturn PROVE IInv'
<1>1. CASE code \notin {ENOENT, SUCCESS} /\ Failed
  <2>1. -code \in Int
    BY DEF IInv, LogTypeOK, SUCCESS, ENOENT, ENOMEM, EEXIST
  <2> QED BY <1>1, <2>1, RefuseInv DEF DeleteReturn, Answered, Failed, Refuse
<1>2. CASE code \in {ENOENT, SUCCESS}
  <2>1. /\ op # NoOp /\ msg = "answered" /\ op.kind = "delete"
        /\ op' = NoOp /\ msg' = "none" /\ result' = op.id /\ code' = SUCCESS
        /\ UNCHANGED <<blocks, faults>>
        /\ op.id \in Ids /\ op.id \in Int /\ blocks[op.id] = NoBlock
        /\ idsOccupied' = [idsOccupied EXCEPT ![op.id] = "NOT_OCCUPIED"]
        /\ logBlocks' = [logBlocks EXCEPT ![op.id] = NoBlock]
    BY <1>2 DEF DeleteReturn, Failed, Answered, Return, SetOccupied, IInv, LogTypeOK, Served, Ops, Ids
  <2>2. LogTypeOK'
    BY <2>1 DEF IInv, LogTypeOK, SUCCESS, BlockLists
  <2>3. Served' /\ Asked' /\ Backed' /\ Probed'
    BY <2>1 DEF IInv, Served, Asked, Backed, Probed, Unread, LogTypeOK
  <2>4. OccupiedIsOnFirmware' /\ FreeIsNotOnFirmware' /\ ListMatchesFirmware'
    BY <2>1 DEF IInv, OccupiedIsOnFirmware, FreeIsNotOnFirmware, ListMatchesFirmware, Mine,
       Unread, LogTypeOK
  <2> QED BY <2>2, <2>3, <2>4 DEF IInv
<1> QED BY <1>1, <1>2 DEF DeleteReturn

\* The answers to start and stop: a successful start proves that the block exists.
LEMMA StartedInv == ASSUME IInv, StartReturn \/ StopReturn PROVE IInv'
<1>0. -code \in Int /\ (op # NoOp => op.id \in Ids /\ op.id \in Int)
  BY DEF IInv, LogTypeOK, SUCCESS, ENOENT, ENOMEM, EEXIST, Ops, Ids
<1>1. CASE StartReturn /\ code # SUCCESS
  BY <1>0, <1>1, RefuseInv DEF StartReturn, Answered, Failed, Refuse
<1>2. CASE StopReturn
  BY <1>0, <1>2, RefuseInv DEF StopReturn, Answered, Refuse, Return
<1>3. CASE StartReturn /\ code = SUCCESS
  <2>1. /\ op # NoOp /\ msg = "answered" /\ op.kind = "start"
        /\ op' = NoOp /\ msg' = "none" /\ result' = op.id /\ code' = SUCCESS
        /\ UNCHANGED <<logBlocks, blocks, faults>>
        /\ idsOccupied' = [idsOccupied EXCEPT ![op.id] = "OCCUPIED"]
    BY <1>3 DEF StartReturn, Failed, Answered, Return, SetOccupied
  <2>2. LogTypeOK'
    BY <1>0, <2>1 DEF IInv, LogTypeOK, SUCCESS
  <2>3. Served' /\ Asked' /\ Backed' /\ Probed'
    BY <1>0, <2>1 DEF IInv, Served, Asked, Backed, Probed, Unread, LogTypeOK
  <2>4. OccupiedIsOnFirmware' /\ FreeIsNotOnFirmware' /\ ListMatchesFirmware'
    BY <1>0, <1>3, <2>1 DEF IInv, OccupiedIsOnFirmware, FreeIsNotOnFirmware,
       ListMatchesFirmware, Mine, Unread, LogTypeOK, Served
  <2> QED BY <2>2, <2>3, <2>4 DEF IInv
<1> QED BY <1>1, <1>2, <1>3

\* The answer to a reset.  If it was refused, the ids are marked free all the same.
LEMMA ResetInv == ASSUME IInv, ResetReturn PROVE IInv'
<1>1. /\ op # NoOp /\ msg = "answered" /\ op.kind = "reset"
      /\ op' = NoOp /\ msg' = "none" /\ result' = -code /\ code' = SUCCESS
      /\ UNCHANGED <<blocks, faults>>
      /\ idsOccupied' = [i \in Ids |-> "NOT_OCCUPIED"]
      /\ \/ code = SUCCESS /\ logBlocks' = [i \in Ids |-> NoBlock]
         \/ code # SUCCESS /\ logBlocks' = logBlocks
  BY DEF ResetReturn, Answered, Return
<1>2. LogTypeOK'
  BY <1>1 DEF IInv, LogTypeOK, SUCCESS, ENOENT, ENOMEM, EEXIST, BlockLists
<1>3. Served' /\ Asked' /\ Backed' /\ Probed'
  BY <1>1 DEF IInv, Served, Asked, Backed, Probed, Unread
<1>4. OccupiedIsOnFirmware' /\ FreeIsNotOnFirmware' /\ ListMatchesFirmware'
  BY <1>1 DEF IInv, OccupiedIsOnFirmware, FreeIsNotOnFirmware, ListMatchesFirmware, Mine,
     Unread, Served
<1> QED BY <1>2, <1>3, <1>4 DEF IInv

\* Every answer that is read keeps the invariant.
LEMMA ReturnsInv == ASSUME IInv, Returns PROVE IInv'
<1>0. -code \in Int
  BY DEF IInv, LogTypeOK, SUCCESS, ENOENT, ENOMEM, EEXIST
<1>1. CASE CreateReturn
  <2>0. op # NoOp /\ msg = "answered" /\ op.kind = "createAny" /\ op.id \in Ids /\ op.item \in Items
    BY <1>1 DEF CreateReturn, Answered, IInv, LogTypeOK, Asked, Creates, Ops
  <2>1. CASE code = EEXIST /\ TryFrom(op.id + 1, op.item)
    <3> DEFINE next == op.id + 1
    <3>1. next \in 0..IdCount /\ code # SUCCESS
      BY <2>0, <2>1, LogAssumption DEF Ids, EEXIST, SUCCESS
    <3>2. "reboot" \notin faults => \A j \in 0..(next - 1) : blocks[j] # NoBlock
      <4>1. "reboot" \notin faults => blocks[op.id] # NoBlock
        BY <2>0, <2>1 DEF IInv, Served, Creates
      <4> QED BY <2>0, <4>1, LogAssumption DEF IInv, Probed, Ids
    <3>3. TryFrom(next, op.item)
      BY <2>1
    <3> HIDE DEF next
    <3> QED BY <2>0, <3>1, <3>2, <3>3, TryFromInv
  <2>2. CASE code = SUCCESS /\ Return(op.id) /\ Insert(op.id, <<op.item>>)
             /\ SetOccupied("OCCUPIED")
    BY <2>0, <2>2, CreatedInv DEF Creates
  <2>3. CASE code \notin {EEXIST, SUCCESS} /\ Failed
    BY <1>0, <2>0, <2>3, RefuseInv DEF Failed, Refuse
  <2> QED BY <1>1, <2>1, <2>2, <2>3 DEF CreateReturn
<1>2. CASE CreateAtReturn
  <2>0. op # NoOp /\ msg = "answered" /\ op.kind = "createAt"
    BY <1>2 DEF CreateAtReturn, Answered
  <2>1. CASE code = SUCCESS /\ Return(op.id) /\ Insert(op.id, <<op.item>>)
             /\ SetOccupied("OCCUPIED")
    BY <2>0, <2>1, CreatedInv DEF Creates
  <2>2. CASE code # SUCCESS /\ Failed
    BY <1>0, <2>0, <2>2, RefuseInv DEF Failed, Refuse
  <2> QED BY <1>2, <2>1, <2>2 DEF CreateAtReturn
<1> QED BY <1>1, <1>2, AppendedInv, DeletedInv, StartedInv, ResetInv DEF Returns

-----------------------------------------------------------------------------
(* The firmware.                                                           *)

\* Requests that are answered without touching a block.
LEMMA AnswerInv ==
  ASSUME IInv, op # NoOp, msg = "sent", NEW c \in {SUCCESS, ENOENT, ENOMEM, EEXIST},
         Answer(c), UNCHANGED blocks,
         c = SUCCESS => op.kind \in {"start", "stop"} /\ blocks[op.id] # NoBlock,
         c = EEXIST => blocks[op.id] # NoBlock,
         op.kind = "delete" => c # ENOENT, op.kind # "reset"
  PROVE  IInv'
<1>1. msg' = "answered" /\ code' = c /\ UNCHANGED <<idsOccupied, logBlocks, op, result, faults, blocks>>
  BY DEF Answer
<1>2. LogTypeOK'
  BY <1>1 DEF IInv, LogTypeOK
<1>3. Served' /\ Asked' /\ Backed' /\ Probed'
  BY <1>1 DEF IInv, Served, Asked, Backed, Probed, Unread, Creates, SUCCESS, ENOENT, ENOMEM, EEXIST
<1>4. OccupiedIsOnFirmware' /\ FreeIsNotOnFirmware'
  BY <1>1 DEF IInv, OccupiedIsOnFirmware, FreeIsNotOnFirmware, Unread
<1>5. ListMatchesFirmware'
  <2>1. \A i \in Ids : Mine(i)' = Mine(i)
    BY <1>1 DEF Mine, Unread
  <2> QED BY <1>1, <2>1 DEF IInv, ListMatchesFirmware
<1> QED BY <1>2, <1>3, <1>4, <1>5 DEF IInv

\* The firmware creates a block: from here on the cache is one request behind.
LEMMA FwCreateInv == ASSUME IInv, FwCreate PROVE IInv'
<1>0. op # NoOp /\ msg = "sent" /\ op.kind \in Creates /\ op.id \in Ids /\ op.item \in Items
  BY DEF FwCreate, Sent, Creates, IInv, LogTypeOK, Asked, Ops
<1>1. CASE blocks[op.id] # NoBlock /\ Answer(EEXIST) /\ UNCHANGED blocks
  BY <1>0, <1>1, AnswerInv DEF Creates, EEXIST, SUCCESS
<1>2. CASE blocks[op.id] = NoBlock /\ Answer(SUCCESS)
  <2> DEFINE s == <<op.item>>
  <2>1. s \in Seq(Items) /\ s \in BlockLists /\ s # NoBlock
    <3>1. s \in Seq(Items)
      BY <1>0
    <3> QED BY <3>1, LogAssumption DEF BlockLists
  <2>2. /\ msg' = "answered" /\ code' = SUCCESS
        /\ UNCHANGED <<idsOccupied, logBlocks, op, result, faults>>
        /\ blocks' = [blocks EXCEPT ![op.id] = s]
    BY <1>2 DEF FwCreate, Answer
  <2> HIDE DEF s
  <2>3. LogTypeOK'
    BY <1>0, <2>1, <2>2 DEF IInv, LogTypeOK
  <2>4. Served' /\ Asked' /\ Backed' /\ Probed'
    <3>1. blocks'[op.id] = s /\ \A i \in Ids : i # op.id => blocks'[i] = blocks[i]
      BY <1>0, <2>2 DEF IInv, LogTypeOK
    <3>2. Served'
      BY <1>0, <2>1, <2>2, <3>1 DEF Served, Creates, SUCCESS, EEXIST, s
    <3>3. Asked'
      BY <2>2 DEF IInv, Asked
    <3>4. Backed'
      BY <1>0, <2>1, <2>2, <3>1 DEF IInv, Backed, Unread, Creates
    <3>5. Probed'
      BY <1>0, <2>1, <2>2, <3>1, LogAssumption DEF IInv, Probed, Ids
    <3> QED BY <3>2, <3>3, <3>4, <3>5
  <2>5. OccupiedIsOnFirmware' /\ FreeIsNotOnFirmware'
    BY <1>0, <2>1, <2>2
    DEF IInv, LogTypeOK, OccupiedIsOnFirmware, FreeIsNotOnFirmware, Unread, Creates
  <2>6. ListMatchesFirmware'
    <3>1. \A i \in Ids : Mine(i)' = logBlocks[i] /\ Mine(i) = logBlocks[i]
      BY <1>0, <2>2 DEF Mine, Unread, Creates
    <3>2. "reset" \notin faults \/ "reboot" \notin faults => logBlocks[op.id] = NoBlock
      BY <1>0, <1>2 DEF IInv, Backed, Asked, Unread
    <3>3. faults # {"reboot", "reset"} => "reset" \notin faults \/ "reboot" \notin faults
      BY DEF IInv, LogTypeOK
    <3> QED BY <1>0, <2>2, <3>1, <3>2, <3>3 DEF IInv, LogTypeOK, ListMatchesFirmware
  <2> QED BY <2>3, <2>4, <2>5, <2>6 DEF IInv
<1> QED BY <1>1, <1>2 DEF FwCreate

\* The firmware appends an item to a block.
LEMMA FwAppendInv == ASSUME IInv, FwAppend PROVE IInv'
<1>0. op # NoOp /\ msg = "sent" /\ op.kind = "append" /\ op.id \in Ids /\ op.item \in Items
  BY DEF FwAppend, Sent, IInv, LogTypeOK, Asked, Ops
<1>1. CASE blocks[op.id] = NoBlock /\ Answer(ENOENT) /\ UNCHANGED blocks
  BY <1>0, <1>1, AnswerInv DEF ENOENT, SUCCESS, EEXIST
<1>2. CASE blocks[op.id] # NoBlock /\ Answer(SUCCESS)
  <2> DEFINE t == Append(blocks[op.id], op.item)
  <2>1. /\ blocks[op.id] \in Seq(Items) /\ t \in Seq(Items) /\ t \in BlockLists /\ t # NoBlock
    <3>1. blocks[op.id] \in Seq(Items)
      BY <1>0, <1>2 DEF IInv, LogTypeOK, BlockLists
    <3>2. t \in Seq(Items)
      BY <1>0, <3>1, AppendProperties
    <3> QED BY <3>1, <3>2, LogAssumption DEF BlockLists
  <2>2. /\ msg' = "answered" /\ code' = SUCCESS
        /\ UNCHANGED <<idsOccupied, logBlocks, op, result, faults>>
        /\ blocks' = [blocks EXCEPT ![op.id] = t]
    BY <1>2 DEF FwAppend, Answer
  <2>3. blocks'[op.id] = t /\ \A i \in Ids : i # op.id => blocks'[i] = blocks[i]
    BY <1>0, <2>2 DEF IInv, LogTypeOK
  <2> HIDE DEF t
  <2>4. LogTypeOK'
    BY <1>0, <2>1, <2>2 DEF IInv, LogTypeOK
  <2>5. Served' /\ Asked' /\ Backed' /\ Probed'
    BY <1>0, <1>2, <2>1, <2>2, <2>3
    DEF IInv, Served, Asked, Backed, Probed, Unread, Creates, SUCCESS, EEXIST
  <2>6. OccupiedIsOnFirmware' /\ FreeIsNotOnFirmware'
    BY <1>0, <1>2, <2>1, <2>2, <2>3
    DEF IInv, OccupiedIsOnFirmware, FreeIsNotOnFirmware, Unread
  <2>7. ListMatchesFirmware'
    <3> DEFINE old == IF logBlocks[op.id] = NoBlock THEN <<>> ELSE logBlocks[op.id]
    <3>1. old \in Seq(Items)
      BY <1>0, EmptySeq DEF IInv, LogTypeOK, BlockLists
    <3>2. ASSUME faults # {"reboot", "reset"} PROVE SuffixOf(old, blocks[op.id])
      <4>1. Mine(op.id) = logBlocks[op.id]
        BY <1>0 DEF Mine, Unread
      <4> QED BY <1>0, <1>2, <2>1, <3>2, <4>1, SuffixTrivial DEF IInv, ListMatchesFirmware
    <3>3. Mine(op.id)' = Append(old, op.item)
      BY <1>0, <2>2 DEF Mine, Unread, Listed
    <3>4. \A i \in Ids : i # op.id => Mine(i)' = logBlocks[i] /\ Mine(i) = logBlocks[i]
      BY <1>0, <2>2 DEF Mine, Unread
    <3> HIDE DEF old
    <3>5. faults # {"reboot", "reset"} => SuffixOf(Append(old, op.item), t)
      BY <1>0, <2>1, <3>1, <3>2, SuffixAppend DEF t
    <3> QED BY <1>0, <2>2, <2>3, <3>3, <3>4, <3>5 DEF IInv, ListMatchesFirmware
  <2> QED BY <2>4, <2>5, <2>6, <2>7 DEF IInv
<1> QED BY <1>1, <1>2 DEF FwAppend

\* Deletions, of one block or of all.
LEMMA FwDeleteInv == ASSUME IInv, FwDelete \/ FwReset PROVE IInv'
<1>0. /\ op # NoOp /\ msg = "sent" /\ op.kind \in {"delete", "reset"} /\ op.id \in Ids
      /\ msg' = "answered" /\ UNCHANGED <<idsOccupied, logBlocks, op, result, faults>>
      /\ code' \in {SUCCESS, ENOENT} /\ (op.kind = "reset" => code' = SUCCESS)
      /\ blocks' \in [Ids -> BlockLists]
      /\ \A i \in Ids : blocks'[i] = IF i = op.id \/ op.kind = "reset" THEN NoBlock ELSE blocks[i]
      /\ (op.kind = "delete" /\ blocks[op.id] # NoBlock) => code' = SUCCESS
  BY DEF FwDelete, FwReset, Answer, Sent, IInv, LogTypeOK, Ops, BlockLists
<1>1. LogTypeOK'
  BY <1>0 DEF IInv, LogTypeOK
<1>2. Served' /\ Asked' /\ Backed' /\ Probed'
  BY <1>0 DEF IInv, Served, Asked, Backed, Probed, Unread, Creates, SUCCESS, ENOENT
<1>3. OccupiedIsOnFirmware' /\ FreeIsNotOnFirmware'
  BY <1>0 DEF IInv, OccupiedIsOnFirmware, FreeIsNotOnFirmware, Unread
<1>4. ListMatchesFirmware'
  <2>1. \A i \in Ids : Mine(i)' = Mine(i)
    BY <1>0 DEF Mine, Unread
  <2> QED BY <1>0, <2>1 DEF IInv, ListMatchesFirmware
<1> QED BY <1>1, <1>2, <1>3, <1>4 DEF IInv

\* A reset that fails leaves the blocks, and a trace in faults.
LEMMA FwResetFailsInv == ASSUME IInv, FwResetFails PROVE IInv'
<1>0. /\ op # NoOp /\ msg = "sent" /\ op.kind = "reset" /\ msg' = "answered" /\ code' = ENOMEM
      /\ faults' = faults \cup {"reset"}
      /\ UNCHANGED <<idsOccupied, logBlocks, op, result, blocks>>
  BY DEF FwResetFails, Fault, Sent
<1>1. LogTypeOK'
  BY <1>0 DEF IInv, LogTypeOK
<1>2. Served' /\ Asked' /\ Backed' /\ Probed'
  BY <1>0 DEF IInv, Served, Asked, Backed, Probed, Unread, Creates, SUCCESS, ENOENT, ENOMEM
<1>3. OccupiedIsOnFirmware' /\ FreeIsNotOnFirmware'
  BY <1>0 DEF IInv, OccupiedIsOnFirmware, FreeIsNotOnFirmware, Unread
<1>4. ListMatchesFirmware'
  <2>1. \A i \in Ids : Mine(i)' = Mine(i)
    BY <1>0 DEF Mine, Unread
  <2>2. faults' # {"reboot", "reset"} => faults # {"reboot", "reset"}
    BY <1>0
  <2> QED BY <1>0, <2>1, <2>2 DEF IInv, ListMatchesFirmware
<1> QED BY <1>1, <1>2, <1>3, <1>4 DEF IInv

\* Every answer of the firmware keeps the invariant.
LEMMA FirmwareInv == ASSUME IInv, Firmware PROVE IInv'
<1>1. CASE FwStartStop
  <2>1. op # NoOp /\ msg = "sent" /\ op.kind \in {"start", "stop"}
    BY <1>1 DEF FwStartStop, Sent
  <2> QED BY <1>1, <2>1, AnswerInv DEF FwStartStop, SUCCESS, ENOENT, ENOMEM, EEXIST
<1>2. CASE FwRefuse
  BY <1>2, AnswerInv DEF FwRefuse, Sent, Kinds, SUCCESS, ENOENT, ENOMEM, EEXIST
<1> QED BY <1>1, <1>2, FwCreateInv, FwAppendInv, FwDeleteInv, FwResetFailsInv DEF Firmware

\* The invariant is inductive.
THEOREM LogStepInv == IInv /\ [LogNext]_logVars => IInv'
<1> SUFFICES ASSUME IInv, [LogNext]_logVars PROVE IInv'
  OBVIOUS
<1>1. CASE UNCHANGED logVars
  BY <1>1 DEF logVars, libVars, fwVars, IInv, LogTypeOK, Served, Asked, Backed, Probed,
     OccupiedIsOnFirmware, FreeIsNotOnFirmware, ListMatchesFirmware, Mine, Listed, Unread
<1>2. CASE LogNext
  BY <1>2, CallsInv, ReturnsInv, FirmwareInv, RebootInv DEF LogNext
<1> QED BY <1>1, <1>2

\* createLogBlock runs out of ids only after it has seen a block at every one of them.
LEMMA GivesUpFull ==
  ASSUME IInv, [LogNext]_logVars, Answered("createAny"), op' = NoOp, result' = -GENERIC,
         "reboot" \notin faults, NEW i \in Ids
  PROVE  blocks[i] # NoBlock
<1>1. op # NoOp /\ msg = "answered" /\ op.kind = "createAny" /\ op.id \in Ids
  BY DEF Answered, IInv, LogTypeOK, Ops
<1>2. CreateReturn
  BY <1>1 DEF LogNext, logVars, libVars, Calls, Returns, Firmware, Reboot, resetLogBlocks,
     createLogBlock, deleteLogBlock, startLogBlock, stopLogBlock, createLogBlockAt,
     appendLogBlock, AskUnlessFree, CreateAtReturn, AppendReturn, DeleteReturn, StartReturn,
     StopReturn, ResetReturn, Answered, FwCreate, FwAppend, FwDelete, FwStartStop, FwReset,
     FwRefuse, FwResetFails, Sent
<1>3. ~(Return(op.id) \/ Failed)
  BY <1>1, LogAssumption
  DEF Return, Failed, GENERIC, Ids, IInv, LogTypeOK, SUCCESS, ENOENT, ENOMEM, EEXIST
<1>4. code = EEXIST /\ TryFrom(op.id + 1, op.item)
  BY <1>2, <1>3 DEF CreateReturn
<1>5. \A j \in 0..op.id : blocks[j] # NoBlock
  <2>1. blocks[op.id] # NoBlock
    BY <1>1, <1>4 DEF IInv, Served, Creates
  <2>2. \A j \in 0..(op.id - 1) : blocks[j] # NoBlock
    BY <1>1 DEF IInv, Probed
  <2> QED BY <1>1, <2>1, <2>2, LogAssumption DEF Ids
<1>6. Taken((op.id + 1)..(IdCount - 1))
  <2>1. ASSUME NEW j \in (op.id + 1)..(IdCount - 1), Request("createAny", j, op.item)
        PROVE  FALSE
    <3>1. j \in Ids /\ op.item \in Items
      BY <1>1, <2>1, LogAssumption DEF Ids, IInv, Asked, Creates
    <3>2. op' \in Ops
      BY <2>1, <3>1 DEF Request, Ops, Kinds
    <3> QED BY <3>2, LogAssumption
  <2> QED BY <1>4, <2>1 DEF TryFrom
<1>7. \A j \in (op.id + 1)..(IdCount - 1) : blocks[j] # NoBlock
  <2>1. \A j \in (op.id + 1)..(IdCount - 1) : j \in Ids
    BY <1>1, LogAssumption DEF Ids
  <2> QED BY <1>1, <1>6, <2>1 DEF Taken, IInv, OccupiedIsOnFirmware, Unread
<1>8. i \in 0..op.id \/ i \in (op.id + 1)..(IdCount - 1)
  BY <1>1, LogAssumption DEF Ids
<1> QED BY <1>5, <1>7, <1>8

\* Every state of the cache is well typed.
THEOREM LogTypes == LogSpec => []LogTypeOK
<1>1. IInv => LogTypeOK
  BY DEF IInv
<1> QED BY <1>1, LogInitInv, LogStepInv, PTL DEF LogSpec

\* What the cache holds for taken is taken, until the Crazyflie reboots.
THEOREM LogOccupied == LogSpec => []OccupiedIsOnFirmware
<1>1. IInv => OccupiedIsOnFirmware
  BY DEF IInv
<1> QED BY <1>1, LogInitInv, LogStepInv, PTL DEF LogSpec

\* What the cache holds for free is free, unless a reset was refused.
THEOREM LogFree == LogSpec => []FreeIsNotOnFirmware
<1>1. IInv => FreeIsNotOnFirmware
  BY DEF IInv
<1> QED BY <1>1, LogInitInv, LogStepInv, PTL DEF LogSpec

\* The lists that log data is decoded with are the ends of the Crazyflie's lists.
THEOREM LogLists == LogSpec => []ListMatchesFirmware
<1>1. IInv => ListMatchesFirmware
  BY DEF IInv
<1> QED BY <1>1, LogInitInv, LogStepInv, PTL DEF LogSpec

\* createLogBlock fails for want of an id only when every id has a block.
THEOREM LogFull == LogSpec => CreateFailsOnlyIfFull
<1>1. IInv /\ [LogNext]_logVars =>
        [(Answered("createAny") /\ op' = NoOp /\ result' = -GENERIC /\ "reboot" \notin faults)
           => \A i \in Ids : blocks[i] # NoBlock]_logVars
  BY GivesUpFull
<1> QED BY <1>1, LogInitInv, LogStepInv, PTL DEF LogSpec, CreateFailsOnlyIfFull

-----------------------------------------------------------------------------
(* What a step of Log does to the lists on both sides.                     *)

\* No answer waits that has changed a list of the Crazyflie for the longer.
Quiet == \A i \in Ids : ~Unread(Creates \cup {"append"}, i)

\* Blocks and lists may go, a list not before its block.
Loses ==
  /\ Quiet /\ Quiet'
  /\ \A i \in Ids : /\ blocks'[i] \in {blocks[i], NoBlock}
                    /\ logBlocks'[i] \in {logBlocks[i], NoBlock}
                    /\ logBlocks'[i] # logBlocks[i] => blocks[i] = NoBlock

\* The Crazyflie has created a block or appended to one.
Made(kinds) ==
  /\ msg = "sent" /\ msg' = "answered" /\ code' = SUCCESS /\ op.kind \in kinds
  /\ op.id \in Ids /\ op.item \in Items
  /\ UNCHANGED <<op, logBlocks, idsOccupied, faults>>
  /\ \A i \in Ids \ {op.id} : blocks'[i] = blocks[i]

Created  == Made(Creates) /\ blocks[op.id] = NoBlock /\ blocks'[op.id] = <<op.item>>
Extended ==
  /\ Made({"append"}) /\ blocks[op.id] # NoBlock
  /\ blocks'[op.id] = Append(blocks[op.id], op.item)

\* The library has read that it has.
Read(kinds) ==
  /\ msg = "answered" /\ code = SUCCESS /\ op.kind \in kinds /\ msg' = "none"
  /\ op.id \in Ids /\ op.item \in Items /\ UNCHANGED <<blocks, faults>>
  /\ \A i \in Ids \ {op.id} : logBlocks'[i] = logBlocks[i]

ReadCreated  ==
  /\ Read(Creates)
  /\ logBlocks'[op.id] = IF logBlocks[op.id] = NoBlock THEN <<op.item>> ELSE logBlocks[op.id]
ReadExtended == Read({"append"}) /\ logBlocks'[op.id] = Listed(op.id, op.item)

\* The two faults that leave the library with a list of a block that is not its own.
BothFaults == faults = {"reboot", "reset"}

\* A request is sent: nothing changes.
LEMMA RequestLoses ==
  ASSUME NEW kind, NEW i, NEW x, Request(kind, i, x), Quiet
  PROVE  Loses
<1>1. msg' = "sent" /\ UNCHANGED <<logBlocks, blocks>>
  BY DEF Request, fwVars
<1>2. Quiet'
  BY <1>1 DEF Quiet, Unread
<1> QED BY <1>1, <1>2 DEF Loses

\* An operation that returns leaves no answer.
LEMMA ReturnQuiet ==
  ASSUME NEW r, Return(r)
  PROVE  Quiet' /\ msg' = "none" /\ UNCHANGED <<blocks, faults>>
<1>1. msg' = "none" /\ UNCHANGED <<blocks, faults>>
  BY DEF Return
<1> QED BY <1>1 DEF Quiet, Unread

\* A refused call changes nothing.
LEMMA RefuseLoses ==
  ASSUME NEW r, Refuse(r), Quiet
  PROVE  Loses
<1>1. UNCHANGED logBlocks /\ Return(r)
  BY DEF Refuse
<1> QED BY <1>1, ReturnQuiet DEF Loses

\* A call that returns an error changes nothing.
LEMMA FailedLoses ==
  ASSUME Failed, Quiet
  PROVE  Loses
<1>1. UNCHANGED logBlocks /\ Return(-code)
  BY DEF Failed
<1> QED BY <1>1, ReturnQuiet DEF Loses

\* Nor does the search of createLogBlock.
LEMMA TryFromLoses ==
  ASSUME NEW i, NEW x, TryFrom(i, x), Quiet
  PROVE  Loses
<1>1. CASE Refuse(-GENERIC)
  BY <1>1, RefuseLoses
<1>2. ASSUME NEW j \in i..(IdCount - 1), Request("createAny", j, x) PROVE Loses
  BY <1>2, RequestLoses
<1> QED BY <1>1, <1>2 DEF TryFrom

\* A call changes no list.
LEMMA CallsLose == ASSUME IInv, Calls PROVE Loses
<1>1. msg = "none"
  BY DEF Calls, resetLogBlocks, createLogBlock, deleteLogBlock, startLogBlock, stopLogBlock,
         createLogBlockAt, appendLogBlock, AskUnlessFree, IInv, LogTypeOK
<1>2. Quiet
  BY <1>1 DEF Quiet, Unread
<1>3. CASE resetLogBlocks
  BY <1>2, <1>3, RequestLoses DEF resetLogBlocks
<1>4. ASSUME NEW x \in Items, createLogBlock(x) PROVE Loses
  BY <1>2, <1>4, TryFromLoses DEF createLogBlock
<1>5. ASSUME NEW kind, NEW i, NEW x, AskUnlessFree(kind, i, x) PROVE Loses
  <2>1. Request(kind, i, x) \/ Refuse(-GENERIC)
    BY <1>5 DEF AskUnlessFree
  <2> QED BY <1>2, <2>1, RequestLoses, RefuseLoses
<1>6. ASSUME NEW i \in Ids, NEW x \in Items, createLogBlockAt(i, x) PROVE Loses
  <2>1. Request("createAt", i, x) \/ Refuse(-GENERIC)
    BY <1>6 DEF createLogBlockAt
  <2> QED BY <1>2, <2>1, RequestLoses, RefuseLoses
<1> QED BY <1>3, <1>4, <1>5, <1>6
        DEF Calls, deleteLogBlock, startLogBlock, stopLogBlock, appendLogBlock

\* An answer is read: the lists catch up with the Crazyflie.
LEMMA ReturnsKinds == ASSUME IInv, Returns PROVE Loses \/ ReadCreated \/ ReadExtended
<1>1. op # NoOp /\ msg = "answered" /\ op \in Ops /\ op.id \in Ids
  BY DEF Returns, CreateReturn, CreateAtReturn, AppendReturn, DeleteReturn, StartReturn, StopReturn,
         ResetReturn, Answered, IInv, LogTypeOK, Ops
<1>2. code # SUCCESS \/ op.kind \notin Creates \cup {"append"} => Quiet
  BY DEF Quiet, Unread, Creates
<1>3. ASSUME op.kind \in Creates, code = SUCCESS, Return(op.id), Insert(op.id, <<op.item>>)
      PROVE  ReadCreated
  <2>1. op.item \in Items
    BY <1>1, <1>3 DEF IInv, Asked
  <2>2. /\ \A i \in Ids \ {op.id} : logBlocks'[i] = logBlocks[i]
        /\ logBlocks'[op.id] = IF logBlocks[op.id] = NoBlock THEN <<op.item>> ELSE logBlocks[op.id]
    BY <1>1, <1>3 DEF Insert, IInv, LogTypeOK
  <2> QED BY <1>1, <1>3, <2>1, <2>2, ReturnQuiet DEF ReadCreated, Read
<1>4. CASE CreateReturn
  <2>1. op.kind = "createAny"
    BY <1>4 DEF CreateReturn, Answered
  <2>2. CASE code = EEXIST /\ TryFrom(op.id + 1, op.item)
    BY <1>2, <2>2, TryFromLoses DEF EEXIST, SUCCESS
  <2>3. CASE code = SUCCESS /\ Return(op.id) /\ Insert(op.id, <<op.item>>)
    BY <1>3, <2>1, <2>3 DEF Creates
  <2>4. CASE code \notin {EEXIST, SUCCESS} /\ Failed
    BY <1>2, <2>4, FailedLoses
  <2> QED BY <1>4, <2>2, <2>3, <2>4 DEF CreateReturn
<1>5. CASE CreateAtReturn
  <2>1. op.kind = "createAt"
    BY <1>5 DEF CreateAtReturn, Answered
  <2>2. CASE code = SUCCESS /\ Return(op.id) /\ Insert(op.id, <<op.item>>)
    BY <1>3, <2>1, <2>2 DEF Creates
  <2>3. CASE code # SUCCESS /\ Failed
    BY <1>2, <2>3, FailedLoses
  <2> QED BY <1>5, <2>2, <2>3 DEF CreateAtReturn
<1>6. CASE AppendReturn
  <2>1. op.kind = "append" /\ op.item \in Items
    BY <1>1, <1>6 DEF AppendReturn, Answered, IInv, Asked
  <2>2. CASE /\ code = SUCCESS /\ Return(op.id)
             /\ logBlocks' = [logBlocks EXCEPT ![op.id] = Listed(op.id, op.item)]
    <3>1. /\ \A i \in Ids \ {op.id} : logBlocks'[i] = logBlocks[i]
          /\ logBlocks'[op.id] = Listed(op.id, op.item)
      BY <1>1, <2>2 DEF IInv, LogTypeOK
    <3> QED BY <1>1, <2>1, <2>2, <3>1, ReturnQuiet DEF ReadExtended, Read
  <2>3. CASE code # SUCCESS /\ Failed
    BY <1>2, <2>3, FailedLoses
  <2> QED BY <1>6, <2>2, <2>3 DEF AppendReturn
<1>7. CASE DeleteReturn
  <2>1. op.kind = "delete" /\ Quiet
    BY <1>2, <1>7 DEF DeleteReturn, Answered, Creates
  <2>2. CASE /\ code \in {ENOENT, SUCCESS} /\ Return(op.id)
             /\ logBlocks' = [logBlocks EXCEPT ![op.id] = NoBlock]
    <3>1. blocks[op.id] = NoBlock
      BY <1>1, <2>1, <2>2 DEF IInv, Served
    <3>2. \A i \in Ids : logBlocks'[i] = IF i = op.id THEN NoBlock ELSE logBlocks[i]
      BY <2>2 DEF IInv, LogTypeOK
    <3> QED BY <2>1, <2>2, <3>1, <3>2, ReturnQuiet DEF Loses
  <2>3. CASE Failed
    BY <2>1, <2>3, FailedLoses
  <2> QED BY <1>7, <2>2, <2>3 DEF DeleteReturn
<1>8. CASE StartReturn
  <2>1. op.kind = "start" /\ Quiet
    BY <1>2, <1>8 DEF StartReturn, Answered, Creates
  <2>2. CASE Return(op.id) /\ UNCHANGED logBlocks
    BY <2>1, <2>2, ReturnQuiet DEF Loses
  <2>3. CASE Failed
    BY <2>1, <2>3, FailedLoses
  <2> QED BY <1>8, <2>2, <2>3 DEF StartReturn
<1>9. CASE StopReturn
  <2>1. op.kind = "stop" /\ Quiet
    BY <1>2, <1>9 DEF StopReturn, Answered, Creates
  <2>2. UNCHANGED logBlocks /\ Return(IF code = SUCCESS THEN op.id ELSE -code)
    BY <1>9 DEF StopReturn
  <2> QED BY <2>1, <2>2, ReturnQuiet DEF Loses
<1>10. CASE ResetReturn
  <2>1. op.kind = "reset" /\ Quiet /\ Return(-code)
    BY <1>2, <1>10 DEF ResetReturn, Answered, Creates
  <2>2. \A i \in Ids : logBlocks'[i] = IF code = SUCCESS THEN NoBlock ELSE logBlocks[i]
    BY <1>10 DEF ResetReturn
  <2>3. code = SUCCESS => \A i \in Ids : blocks[i] = NoBlock
    BY <1>1, <2>1 DEF IInv, Served
  <2> QED BY <2>1, <2>2, <2>3, ReturnQuiet DEF Loses
<1> QED BY <1>4, <1>5, <1>6, <1>7, <1>8, <1>9, <1>10 DEF Returns

\* A request is served: the Crazyflie is ahead of the lists.
LEMMA FirmwareKinds == ASSUME IInv, Firmware PROVE Loses \/ Created \/ Extended
<1>1. op # NoOp /\ msg = "sent" /\ op \in Ops /\ op.id \in Ids
  BY DEF Firmware, FwCreate, FwAppend, FwDelete, FwStartStop, FwReset, FwRefuse, FwResetFails, Sent,
         IInv, LogTypeOK, Ops
<1>2. Quiet
  BY <1>1 DEF Quiet, Unread
<1>3. ASSUME NEW c, Answer(c)
      PROVE  msg' = "answered" /\ code' = c /\ UNCHANGED <<idsOccupied, logBlocks, op, faults>>
  BY <1>3 DEF Answer
<1>4. ASSUME NEW c, Answer(c), c # SUCCESS \/ op.kind \notin Creates \cup {"append"} PROVE Quiet'
  BY <1>3, <1>4 DEF Quiet, Unread, Creates
<1>5. ASSUME NEW c, Answer(c), c # SUCCESS \/ op.kind \notin Creates \cup {"append"},
             \A i \in Ids : blocks'[i] \in {blocks[i], NoBlock}
      PROVE  Loses
  <2>1. UNCHANGED logBlocks /\ Quiet'
    BY <1>3, <1>4, <1>5
  <2> QED BY <1>2, <1>5, <2>1 DEF Loses
<1>6. CASE FwCreate
  <2>1. op.kind \in Creates /\ op.item \in Items
    BY <1>1, <1>6 DEF FwCreate, Sent, Creates, IInv, Asked
  <2>2. CASE Answer(EEXIST) /\ UNCHANGED blocks
    BY <1>5, <2>2 DEF EEXIST, SUCCESS
  <2>3. CASE /\ blocks[op.id] = NoBlock /\ Answer(SUCCESS)
             /\ blocks' = [blocks EXCEPT ![op.id] = <<op.item>>]
    <3>1. blocks'[op.id] = <<op.item>> /\ \A i \in Ids \ {op.id} : blocks'[i] = blocks[i]
      BY <1>1, <2>3 DEF IInv, LogTypeOK
    <3> QED BY <1>1, <1>3, <2>1, <2>3, <3>1 DEF Created, Made
  <2> QED BY <1>6, <2>2, <2>3 DEF FwCreate
<1>7. CASE FwAppend
  <2>1. op.kind = "append" /\ op.item \in Items
    BY <1>1, <1>7 DEF FwAppend, Sent, IInv, Asked
  <2>2. CASE Answer(ENOENT) /\ UNCHANGED blocks
    BY <1>5, <2>2 DEF ENOENT, SUCCESS
  <2>3. CASE /\ blocks[op.id] # NoBlock /\ Answer(SUCCESS)
             /\ blocks' = [blocks EXCEPT ![op.id] = Append(@, op.item)]
    <3>1. /\ blocks'[op.id] = Append(blocks[op.id], op.item)
          /\ \A i \in Ids \ {op.id} : blocks'[i] = blocks[i]
      BY <1>1, <2>3 DEF IInv, LogTypeOK
    <3> QED BY <1>1, <1>3, <2>1, <2>3, <3>1 DEF Extended, Made
  <2> QED BY <1>7, <2>2, <2>3 DEF FwAppend
<1>8. CASE FwDelete
  <2>1. op.kind = "delete" /\ Answer(IF blocks[op.id] = NoBlock THEN ENOENT ELSE SUCCESS)
    BY <1>8 DEF FwDelete, Sent
  <2>2. \A i \in Ids : blocks'[i] \in {blocks[i], NoBlock}
    BY <1>8 DEF FwDelete, IInv, LogTypeOK
  <2> QED BY <1>5, <2>1, <2>2 DEF Creates
<1>9. CASE FwStartStop
  <2>1. op.kind \in {"start", "stop"} /\ Answer(IF blocks[op.id] = NoBlock THEN ENOENT ELSE SUCCESS)
        /\ UNCHANGED blocks
    BY <1>9 DEF FwStartStop, Sent
  <2> QED BY <1>5, <2>1 DEF Creates
<1>10. CASE FwReset
  <2>1. op.kind = "reset" /\ Answer(SUCCESS) /\ \A i \in Ids : blocks'[i] = NoBlock
    BY <1>10 DEF FwReset, Sent
  <2> QED BY <1>5, <2>1 DEF Creates
<1>11. CASE FwRefuse
  BY <1>5, <1>11 DEF FwRefuse, SUCCESS, ENOMEM
<1>12. CASE FwResetFails
  <2>1. msg' = "answered" /\ code' = ENOMEM /\ UNCHANGED <<logBlocks, blocks>>
    BY <1>12 DEF FwResetFails
  <2>2. Quiet'
    BY <2>1 DEF Quiet, Unread, SUCCESS, ENOMEM
  <2> QED BY <1>2, <2>1, <2>2 DEF Loses
<1> QED BY <1>6, <1>7, <1>8, <1>9, <1>10, <1>11, <1>12 DEF Firmware

\* What a step can do to the lists.
LEMMA StepKinds ==
  ASSUME IInv, LogNext
  PROVE  Loses \/ Created \/ Extended \/ ReadCreated \/ ReadExtended \/ Reboot
BY CallsLose, ReturnsKinds, FirmwareKinds DEF LogNext

\* A fault that has happened has happened.
LEMMA FaultsGrow ==
  ASSUME IInv, LogNext
  PROVE  BothFaults => BothFaults'
<1>1. faults \subseteq faults'
  BY DEF LogNext, Calls, Returns, Firmware, Reboot, resetLogBlocks, createLogBlock, deleteLogBlock,
         startLogBlock, stopLogBlock, createLogBlockAt, appendLogBlock, AskUnlessFree, Request, Refuse,
         TryFrom, Return, Failed, CreateReturn, CreateAtReturn, AppendReturn, DeleteReturn, StartReturn,
         StopReturn, ResetReturn, FwCreate, FwAppend, FwDelete, FwStartStop, FwReset, FwRefuse,
         FwResetFails, Answer, Fault
<1>2. faults' \subseteq {"reboot", "reset"}
  BY LogStepInv DEF IInv, LogTypeOK
<1> QED BY <1>1, <1>2 DEF BothFaults
=============================================================================
