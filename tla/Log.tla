--------------------------------- MODULE Log ---------------------------------
(***************************************************************************)
(* Log.cpp: the library's cache of the log blocks that exist on the        *)
(* Crazyflie, kept up to date by control requests and their answers.       *)
(*                                                                         *)
(* One client thread calls the operations (the class has no lock).  An     *)
(* operation that asks the Crazyflie is two steps: the call, which sends   *)
(* the request and blocks in sendRecvData, and the return, which reads the *)
(* answer's status.  Between the two the firmware serves the request, and  *)
(* it may reboot at any moment, forgetting every block.                    *)
(*                                                                         *)
(* The firmware is outside the repository: its actions are modelled from   *)
(* the statuses the library tells apart.  The answer a caller gets is the  *)
(* answer to its own request.                                              *)
(***************************************************************************)
EXTENDS Integers, Sequences, FiniteSets, FiniteSetsExt

CONSTANTS
  IdCount,      \* UINT8_MAX: idsOccupied has the entries 0 .. IdCount - 1
  Items,        \* TOC items, as createLogBlock and appendLogBlock name them
  LeftOver,     \* the items of blocks that an earlier session left on the firmware
  MaxItems,     \* the items that the firmware has memory for, in all its blocks
  ResetMayFail, \* may the firmware answer a reset with an error?
  MaxFaults,    \* bound: how many of the two kinds of faults may happen
  NoItem,       \* a request that names no item
  NoBlock,      \* no entry in _logBlocks, no block on the firmware
  NoOp          \* the client is not inside an operation

VARIABLES
  idsOccupied, \* what the library believes of each id
  logBlocks,   \* _logBlocks: the item list of each id, or NoBlock
  op,          \* the operation in progress: its kind, id and item
  msg,         \* its request: "none", "sent" or "answered"
  result,      \* what the last operation returned, SUCCESS while one is in progress
  blocks,      \* firmware: the items of each block, or NoBlock
  code,        \* the status in the answer
  faults       \* which faults have happened: "reboot", "reset" (a failed reset)

libVars == <<idsOccupied, logBlocks, op, msg, result>>
fwVars  == <<blocks, code>>
logVars == <<libVars, fwVars, faults>>

Ids == 0..(IdCount - 1)

\* errno.h and Log.h:23-24.
SUCCESS == 0
ENOENT == 2
ENOMEM == 12
EEXIST == 17
GENERIC == 255

Kinds == {"createAny", "createAt", "append", "delete", "start", "stop", "reset"}
Ops   == [kind : Kinds, id : Ids, item : Items \cup {NoItem}]

ASSUME LogAssumption ==
  /\ IdCount \in Nat \ {0} /\ MaxItems \in Nat \ {0}
  /\ ResetMayFail \in BOOLEAN /\ MaxFaults \in Nat /\ LeftOver \subseteq Items
  /\ NoBlock \notin Seq(Items) /\ NoItem \notin Items /\ NoOp \notin Ops

\* The library starts ignorant; the firmware may have kept blocks, of one item each,
\* from an earlier session.
LogInit ==
  /\ idsOccupied = [i \in Ids |-> "UNKNOWN"]
  /\ logBlocks = [i \in Ids |-> NoBlock]
  /\ op = NoOp /\ msg = "none" /\ result = SUCCESS
  /\ blocks \in [Ids -> {NoBlock} \cup {<<x>> : x \in LeftOver}]
  /\ code = SUCCESS /\ faults = {}

-----------------------------------------------------------------------------
(* Calling and returning.                                                  *)

Request(kind, i, x) ==
  /\ op' = [kind |-> kind, id |-> i, item |-> x]
  /\ msg' = "sent" /\ result' = SUCCESS
  /\ UNCHANGED <<idsOccupied, logBlocks, fwVars, faults>>

\* The answer packet goes out of scope with the call.
Return(r) ==
  /\ op' = NoOp /\ msg' = "none" /\ result' = r /\ code' = SUCCESS
  /\ UNCHANGED <<blocks, faults>>

\* The caller is told without asking the Crazyflie.
Refuse(r) == Return(r) /\ UNCHANGED <<idsOccupied, logBlocks>>

Answered(kind) == op # NoOp /\ msg = "answered" /\ op.kind = kind

Failed == Return(-code) /\ UNCHANGED <<idsOccupied, logBlocks>>

SetOccupied(status) == idsOccupied' = [idsOccupied EXCEPT ![op.id] = status]

\* std::map::insert leaves an entry that exists as it is.
Insert(i, s) ==
  logBlocks' = IF logBlocks[i] = NoBlock THEN [logBlocks EXCEPT ![i] = s] ELSE logBlocks

Taken(S) == \A j \in S : idsOccupied[j] = "OCCUPIED"

\* Mutated form: the loop runs one id too far.
TryFromOneMore(i, x) ==
  \E j \in i..IdCount :
    /\ j = IdCount \/ ~Taken({j} \cap Ids)
    /\ Taken(i..(j - 1)) /\ Request("createAny", j, x)

\* Mutated form: an id the library has deleted is not tried again.
TryFromUnknownOnly(i, x) ==
  \/ \E j \in i..(IdCount - 1) :
       /\ idsOccupied[j] = "UNKNOWN"
       /\ \A k \in i..(j - 1) : idsOccupied[k] # "UNKNOWN"
       /\ Request("createAny", j, x)
  \/ (\A j \in i..(IdCount - 1) : idsOccupied[j] # "UNKNOWN") /\ Refuse(-GENERIC)

\* The loop of lines 92-111 from id i on: ask for the next id not known to be taken.
TryFrom(i, x) ==
  \/ \E j \in i..(IdCount - 1) :
       ~Taken({j}) /\ Taken(i..(j - 1)) /\ Request("createAny", j, x)
  \/ Taken(i..(IdCount - 1)) /\ Refuse(-GENERIC)

createLogBlock(x) == op = NoOp /\ TryFrom(0, x)

\* Mutated form: the loop retries the id that exists.
CreateReturnSameId ==
  /\ Answered("createAny")
  /\ \/ code = EEXIST /\ TryFrom(op.id, op.item)
     \/ code = SUCCESS /\ Return(op.id) /\ Insert(op.id, <<op.item>>)
        /\ SetOccupied("OCCUPIED")
     \/ code \notin {EEXIST, SUCCESS} /\ Failed

CreateReturn ==
  /\ Answered("createAny")
  /\ \/ code = EEXIST /\ TryFrom(op.id + 1, op.item)
     \/ code = SUCCESS /\ Return(op.id) /\ Insert(op.id, <<op.item>>)
        /\ SetOccupied("OCCUPIED")
     \/ code \notin {EEXIST, SUCCESS} /\ Failed

createLogBlockAt(i, x) ==
  /\ op = NoOp
  /\ IF idsOccupied[i] # "OCCUPIED" THEN Request("createAt", i, x) ELSE Refuse(-GENERIC)

CreateAtReturn ==
  /\ Answered("createAt")
  /\ \/ code = SUCCESS /\ Return(op.id) /\ Insert(op.id, <<op.item>>)
        /\ SetOccupied("OCCUPIED")
     \/ code # SUCCESS /\ Failed

\* append, delete, start and stop refuse an id they know to be free.
AskUnlessFree(kind, i, x) ==
  /\ op = NoOp
  /\ IF idsOccupied[i] # "NOT_OCCUPIED" THEN Request(kind, i, x) ELSE Refuse(-GENERIC)

appendLogBlock(i, x) == AskUnlessFree("append", i, x)
deleteLogBlock(i)    == AskUnlessFree("delete", i, NoItem)
startLogBlock(i)     == AskUnlessFree("start", i, NoItem)
stopLogBlock(i)      == AskUnlessFree("stop", i, NoItem)
resetLogBlocks       == op = NoOp /\ Request("reset", 0, NoItem)

\* _logBlocks[i].push_back(x); _logBlocks[i] makes an empty list where there was none.
Listed(i, x) == Append(IF logBlocks[i] = NoBlock THEN <<>> ELSE logBlocks[i], x)

\* Mutated form: an item that the firmware refused is listed.
AppendReturnAlways ==
  /\ Answered("append")
  /\ Return(IF code = SUCCESS THEN op.id ELSE -code) /\ SetOccupied("OCCUPIED")
  /\ logBlocks' = [logBlocks EXCEPT ![op.id] = Listed(op.id, op.item)]

AppendReturn ==
  /\ Answered("append")
  /\ \/ /\ code = SUCCESS
        /\ logBlocks' = [logBlocks EXCEPT ![op.id] = Listed(op.id, op.item)]
        /\ Return(op.id) /\ SetOccupied("OCCUPIED")
     \/ code # SUCCESS /\ Failed

\* Mutated form: every status counts as a deletion.
DeleteReturnAlways ==
  /\ Answered("delete")
  /\ Return(op.id) /\ SetOccupied("NOT_OCCUPIED")
  /\ logBlocks' = [logBlocks EXCEPT ![op.id] = NoBlock]

DeleteReturn ==
  /\ Answered("delete")
  /\ \/ /\ code \in {ENOENT, SUCCESS}
        /\ Return(op.id) /\ SetOccupied("NOT_OCCUPIED")
        /\ logBlocks' = [logBlocks EXCEPT ![op.id] = NoBlock]
     \/ code \notin {ENOENT, SUCCESS} /\ Failed

\* Mutated form: a refused start still marks the id.
StartReturnAlways ==
  /\ Answered("start")
  /\ Return(IF code = SUCCESS THEN op.id ELSE -code) /\ SetOccupied("OCCUPIED")
  /\ UNCHANGED logBlocks

StartReturn ==
  /\ Answered("start")
  /\ \/ code = SUCCESS /\ Return(op.id) /\ SetOccupied("OCCUPIED")
        /\ UNCHANGED logBlocks
     \/ code # SUCCESS /\ Failed

StopReturn ==
  /\ Answered("stop")
  /\ Return(IF code = SUCCESS THEN op.id ELSE -code)
  /\ UNCHANGED <<idsOccupied, logBlocks>>

\* Lines 228-233: the ids are marked whatever the status, the lists only on success.  The
\* status is taken to be byte 2 of the answer, where line 226 reads it and where the other
\* answers have it; the protocol's description (src/README.md:830-857) has it in byte 1.
ResetReturn ==
  /\ Answered("reset")
  /\ idsOccupied' = [i \in Ids |-> "NOT_OCCUPIED"]
  /\ logBlocks' = IF code = SUCCESS THEN [i \in Ids |-> NoBlock] ELSE logBlocks
  /\ Return(-code)

Returns == CreateReturn \/ CreateAtReturn \/ AppendReturn \/ DeleteReturn
             \/ StartReturn \/ StopReturn \/ ResetReturn

-----------------------------------------------------------------------------
(* The firmware's side of the control channel.                             *)

Sent(kinds) == op # NoOp /\ msg = "sent" /\ op.kind \in kinds

Answer(status) ==
  /\ msg' = "answered" /\ code' = status
  /\ UNCHANGED <<idsOccupied, logBlocks, op, result, faults>>

Room ==
  MapThenSumSet(LAMBDA i : IF blocks[i] = NoBlock THEN 0 ELSE Len(blocks[i]), Ids) < MaxItems

FwCreate ==
  /\ Sent({"createAny", "createAt"})
  /\ \/ blocks[op.id] # NoBlock /\ Answer(EEXIST) /\ UNCHANGED blocks
     \/ /\ blocks[op.id] = NoBlock /\ Room /\ Answer(SUCCESS)
        /\ blocks' = [blocks EXCEPT ![op.id] = <<op.item>>]

FwAppend ==
  /\ Sent({"append"})
  /\ \/ blocks[op.id] = NoBlock /\ Answer(ENOENT) /\ UNCHANGED blocks
     \/ /\ blocks[op.id] # NoBlock /\ Room /\ Answer(SUCCESS)
        /\ blocks' = [blocks EXCEPT ![op.id] = Append(@, op.item)]

FwDelete ==
  /\ Sent({"delete"})
  /\ Answer(IF blocks[op.id] = NoBlock THEN ENOENT ELSE SUCCESS)
  /\ blocks' = [blocks EXCEPT ![op.id] = NoBlock]

\* Whether a block is running tells the library nothing.
FwStartStop ==
  /\ Sent({"start", "stop"})
  /\ Answer(IF blocks[op.id] = NoBlock THEN ENOENT ELSE SUCCESS)
  /\ UNCHANGED blocks

FwReset ==
  /\ Sent({"reset"}) /\ Answer(SUCCESS)
  /\ blocks' = [i \in Ids |-> NoBlock]

\* Out of memory or busy: the request is refused without effect.
FwRefuse ==
  /\ Sent(Kinds \ {"reset"}) /\ Answer(ENOMEM) /\ UNCHANGED blocks

Fault(kind) ==
  /\ faults' = faults \cup {kind} /\ Cardinality(faults') <= MaxFaults

FwResetFails ==
  /\ ResetMayFail /\ Sent({"reset"}) /\ Fault("reset")
  /\ msg' = "answered" /\ code' = ENOMEM
  /\ UNCHANGED <<idsOccupied, logBlocks, op, result, blocks>>

Firmware == FwCreate \/ FwAppend \/ FwDelete \/ FwStartStop \/ FwReset
              \/ FwRefuse \/ FwResetFails

\* Bound: one reboot.  The link survives it, a request on its way is still served.
Reboot ==
  /\ "reboot" \notin faults /\ Fault("reboot")
  /\ blocks' = [i \in Ids |-> NoBlock]
  /\ UNCHANGED <<libVars, code>>

Calls ==
  \/ resetLogBlocks
  \/ \E x \in Items : createLogBlock(x)
  \/ \E i \in Ids : deleteLogBlock(i) \/ startLogBlock(i) \/ stopLogBlock(i)
  \/ \E i \in Ids, x \in Items : createLogBlockAt(i, x) \/ appendLogBlock(i, x)

LogNext == Calls \/ Returns \/ Firmware \/ Reboot

LogSpec == LogInit /\ [][LogNext]_logVars

-----------------------------------------------------------------------------
(* Properties.                                                             *)

BlockLists == Seq(Items) \cup {NoBlock}

\* Types; msg says whether there is an operation.
LogTypeOK ==
  /\ idsOccupied \in [Ids -> {"OCCUPIED", "NOT_OCCUPIED", "UNKNOWN"}]
  /\ logBlocks \in [Ids -> BlockLists] /\ blocks \in [Ids -> BlockLists]
  /\ op \in Ops \cup {NoOp} /\ msg \in {"none", "sent", "answered"}
  /\ op = NoOp <=> msg = "none"
  /\ result \in Int /\ code \in {SUCCESS, ENOENT, ENOMEM, EEXIST}
  /\ faults \subseteq {"reboot", "reset"}

\* The firmware has done what the blocked client does not know of yet.
Unread(kinds, i) ==
  msg = "answered" /\ code = SUCCESS /\ op.kind \in kinds
    /\ (op.kind = "reset" \/ op.id = i)

\* An id the cache holds for taken is a block of the Crazyflie, whatever the order of
\* calls, refusals and left-over blocks, until the Crazyflie reboots.
OccupiedIsOnFirmware ==
  "reboot" \notin faults =>
    \A i \in Ids : idsOccupied[i] = "OCCUPIED" =>
       blocks[i] # NoBlock \/ Unread({"delete", "reset"}, i)

\* An id the cache holds for free, on which delete, append, start and stop refuse to
\* act, is no block of the Crazyflie: no block is out of reach.  Only a reset that
\* the Crazyflie refused breaks this.
FreeIsNotOnFirmware ==
  "reset" \notin faults =>
    \A i \in Ids : idsOccupied[i] = "NOT_OCCUPIED" =>
       blocks[i] = NoBlock \/ Unread({"createAny", "createAt"}, i)

\* The list that addLogCallback decodes log data with, once the answer is read.
Mine(i) == IF Unread({"append"}, i) THEN Listed(i, op.item) ELSE logBlocks[i]

SuffixOf(s, t) ==
  Len(s) <= Len(t) /\ \A k \in 1..Len(s) : s[k] = t[Len(t) - Len(s) + k]

\* The items the library lists for a block are the last items of the block, in
\* order, even after a reboot or a refused reset, but not after both: then insert()
\* finds the stale list and keeps it.
ListMatchesFirmware ==
  faults # {"reboot", "reset"} =>
    \A i \in Ids : Mine(i) # NoBlock /\ blocks[i] # NoBlock => SuffixOf(Mine(i), blocks[i])

\* createLogBlock gives up for want of an id only when every id has a block.
CreateFailsOnlyIfFull ==
  [][(Answered("createAny") /\ op' = NoOp /\ result' = -GENERIC /\ "reboot" \notin faults)
       => \A i \in Ids : blocks[i] # NoBlock]_logVars
=============================================================================
