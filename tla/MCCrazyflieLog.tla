--------------------------- MODULE MCCrazyflieLog ---------------------------
(* Three ids, two names, and requests for CrazyflieLog: one of two items, one *)
(* whose second item is not in the TOC, and one whose first is not.           *)
EXTENDS CrazyflieLog

CONSTANTS a, b, n1, n2

MCRequests == {<<b, a>>, <<a, Missing>>, <<Missing>>}
=============================================================================
