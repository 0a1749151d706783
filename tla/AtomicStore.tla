---------------------------- MODULE AtomicStore ----------------------------
(***************************************************************************)
(* What the Store interface promises to concurrent callers: a call takes   *)
(* effect at one instant between its begin and its return, a Purge with    *)
(* all the leases it deletes and all the addresses it frees.  The effects  *)
(* are those of module Store, which Handler takes for single steps.        *)
(***************************************************************************)
EXTENDS Store

CONSTANTS
  Procs,  \* the goroutines that call the store
  Times   \* the instants of expiry and of purges

VARIABLES
  call,   \* the call each goroutine is in
  ok      \* what its last Lease or AllocateIP returned

vars == <<leases, allocated, call, ok>>

Idle == [op |-> "idle"]

LeaseCall(c) == [op |-> "Lease", client |-> c]
SaveCall(c, l) == [op |-> "SaveLease", client |-> c, lease |-> l]
DeleteCall(c) == [op |-> "DeleteLease", client |-> c]
AllocateCall(a) == [op |-> "AllocateIP", ip |-> a]
FreeCall(a) == [op |-> "FreeIP", ip |-> a]
PurgeCall(t) == [op |-> "Purge", time |-> t]

Calls ==
  {LeaseCall(c) : c \in Clients} \cup {DeleteCall(c) : c \in Clients}
    \cup {SaveCall(c, l) : c \in Clients, l \in [ips : SUBSET Addrs, exp : Times]}
    \cup {AllocateCall(a) : a \in Addrs} \cup {FreeCall(a) : a \in Addrs}
    \cup {PurgeCall(t) : t \in Times}

Init ==
  /\ leases = [c \in Clients |-> NoLease]
  /\ allocated = {}
  /\ call = [q \in Procs |-> Idle]
  /\ ok = [q \in Procs |-> FALSE]

Begin(q) ==
  /\ call[q] = Idle
  /\ \E f \in Calls : call' = [call EXCEPT ![q] = f]
  /\ UNCHANGED <<leases, allocated, ok>>

\* The effect of a call.
Effect(q) ==
  LET f == call[q]
      Answer(b) == ok' = [ok EXCEPT ![q] = b]
  IN \/ /\ f.op = "Lease"
        /\ Answer(leases[f.client] # NoLease)
        /\ UNCHANGED <<leases, allocated>>
     \/ f.op = "SaveLease" /\ SaveLease(f.client, f.lease) /\ UNCHANGED ok
     \/ f.op = "DeleteLease" /\ DeleteLease(f.client) /\ UNCHANGED ok
     \/ f.op = "AllocateIP" /\ AllocateIP(f.ip) /\ Answer(TRUE)
     \/ /\ f.op = "AllocateIP"
        /\ f.ip \in allocated
        /\ Answer(FALSE)
        /\ UNCHANGED <<leases, allocated>>
     \/ f.op = "FreeIP" /\ FreeIP(f.ip) /\ UNCHANGED ok
     \/ f.op = "Purge" /\ PurgeLeases(f.time) /\ UNCHANGED ok

Complete(q) == Effect(q) /\ call' = [call EXCEPT ![q] = Idle]

\* A lease that is being saved may be seen before the call returns; what else
\* happens meanwhile, a purge for one, happens to the saved lease.
SeenEarly(q) == call[q].op = "SaveLease" /\ Effect(q) /\ UNCHANGED call

Next == \E q \in Procs : Begin(q) \/ Complete(q) \/ SeenEarly(q)

Spec == Init /\ [][Next]_vars

=============================================================================
