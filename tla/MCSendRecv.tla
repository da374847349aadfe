------------------------------ MODULE MCSendRecv ------------------------------
(* Two clients for SendRecv.  The second call of k1 is the one that an earlier *)
(* call can disturb; k2, whose call has no timeout as all of the library's     *)
(* own, shows that channels do not disturb each other.                         *)
EXTENDS SendRecv

CONSTANTS k1, k2

TwoAndOne == [k \in {k1, k2} |-> IF k = k1 THEN 2 ELSE 1]

OnlyK1 == [k \in {k1, k2} |-> IF k = k1 THEN {0, 1} ELSE {0}]
NoTimeouts == [k \in {k1, k2} |-> {0}]
=============================================================================
