------------------------- MODULE MCConnectionWorker -------------------------
(* Small instances of ConnectionWorker for TLC.                            *)
EXTENDS ConnectionWorker, TLC

CONSTANTS c1, c2, c3, p1, p2

\* Two callbacks of one channel and a third of another, and a packet for each channel.
\* Everything is symmetric in the two callbacks.
TwoAndOneChan == [c \in Callbacks |-> IF c = c3 THEN 2 ELSE 1]
OnePktEach    == [p \in Packets |-> IF p = p1 THEN 1 ELSE 2]
Twins         == Permutations({c1, c2})

\* A callback that both packets are for, and with c3 one that neither is for.
BothPkts == [p \in Packets |-> 1]

\* A callback may keep itself registered or refuse.
MayRefuse == [c \in Callbacks |-> BOOLEAN]
=============================================================================
