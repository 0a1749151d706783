------------------------------- MODULE IPPool -------------------------------
(***************************************************************************)
(* What the callers of one subnet's allocator may rely on: a pool of       *)
(* addresses from which Allocate takes any that is free, or says that      *)
(* there is none, while Free gives addresses back at any time.  Which one  *)
(* it takes is not promised.  SimpleIPAllocator implements this for        *)
(* orderly configurations; Handler takes one step for a whole call.        *)
(***************************************************************************)

VARIABLES
  pool,   \* the addresses that may be handed out; never changes
  taken,  \* the addresses in use, which may lie outside the pool
  busy,   \* is a call of Allocate running?
  full,   \* was the whole pool taken when the current or last call began?
  ret     \* how the last call returned

vars == <<pool, taken, busy, full, ret>>

Init ==
  /\ busy = FALSE
  /\ full = (pool \subseteq taken)
  /\ ret = "none"

Begin ==
  /\ ~busy
  /\ busy' = TRUE
  /\ full' = (pool \subseteq taken)
  /\ ret' = "none"
  /\ UNCHANGED <<pool, taken>>

End(r) ==
  /\ busy
  /\ busy' = FALSE
  /\ ret' = r
  /\ UNCHANGED <<pool, full>>

Take == End("ok") /\ \E a \in pool \ taken : taken' = taken \cup {a}

\* Only when there was nothing to take at the beginning: an address that is
\* freed while the call runs may be missed.
Refuse == End("exhausted") /\ full /\ UNCHANGED taken

Fail == End("error") /\ UNCHANGED taken

Free ==
  /\ \E a \in taken : taken' = taken \ {a}
  /\ UNCHANGED <<pool, busy, full, ret>>

Next == Begin \/ Take \/ Refuse \/ Fail \/ Free

Spec == Init /\ [][Next]_vars

=============================================================================
