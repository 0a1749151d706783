------------------------------ MODULE MCServer ------------------------------
(***************************************************************************)
(* One or two configured interfaces and three connections: one that is     *)
(* answered, one that Close waits for and one that is accepted too late.   *)
(***************************************************************************)
EXTENDS Server

CONSTANTS c1, c2, c3    \* model values: connections

=============================================================================
