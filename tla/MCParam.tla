-------------------------------- MODULE MCParam --------------------------------
(* Two firmwares with three keys between them: other numbers, other types, and *)
(* a byte that no type has (4).                                                *)
EXTENDS ParamListing

\* uint32_t, read-only float; then another key, and the first two in another order.
MCFwTocs == {<<[key |-> 2, byte |-> 10], [key |-> 1, byte |-> 6 + ACCESS_TYPE_BYTE]>>,
             <<[key |-> 3, byte |-> 4], [key |-> 1, byte |-> 1], [key |-> 2, byte |-> 6]>>}

\* The view: no step reads the result of the last call, nor the kind of a listing that is
\* dropped.
MCView ==
  <<tocVars, vals, wrote, strayed, todo, rows,
    IF rows = <<>> /\ todo = <<>> THEN "none" ELSE listing>>
=============================================================================
