------------------------------- MODULE MCLogData -------------------------------
(* Two ids, two items of different widths, blocks of two items, one callback. *)
EXTENDS LogData

CONSTANTS a, b

\* float and int16_t in the numbering of the log TOC.
MCItemType == [x \in {a, b} |-> IF x = a THEN 7 ELSE 5]

(***************************************************************************)
(* The view: what the steps to come, and the properties, depend on.  Not   *)
(* the result of the last operation, nor which number a packet has when    *)
(* only one is not left to be erased; nor what is in the packets of a      *)
(* block that no callback is for, nor what has been decoded of bytes that  *)
(* are not told apart.                                                     *)
(***************************************************************************)

\* The blocks that a callback is for, or may yet be added for.
MCIds ==
  IF \E l \in Listeners : bound[l] = Unbound THEN Ids ELSE {bound[l].id : l \in Listeners}

MCPacket(p) ==
  IF p.id \notin MCIds THEN <<>>
  ELSE IF p.items = Outdated THEN <<p.id>> ELSE <<p.id, p.items, p.listed>>

MCThread(t) ==
  <<t.cb, t.pc, MCPacket(t.pkt), t.at,
    IF Len(MCPacket(t.pkt)) = 3 THEN <<t.dataPtr, t.result>> ELSE <<>>>>

\* Data packets can do nothing more to a callback that has been erased, and nothing that
\* is claimed to one whose list was taken away from it.
MCGone ==
  \A l \in Listeners :
    /\ bound[l] # Unbound
    /\ (l \notin cbs /\ threads = {}) \/ (l \in pulled /\ ~bound[l].ok)

\* After undefined behaviour there are no steps, and only its cause is judged.
MCView ==
  <<idsOccupied, logBlocks, op, msg, fwVars, faults,
    IF UB THEN <<wild, WildOnlyIfMisused>>
    ELSE IF MCGone THEN <<>>
    ELSE <<running, {MCPacket(p) : p \in link}, cbs, bound, {MCThread(t) : t \in threads},
           Cardinality(threads), refused, own \cap MCIds, pulled \cup late>>>>
=============================================================================
