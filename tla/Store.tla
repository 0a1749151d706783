------------------------------- MODULE Store -------------------------------
(***************************************************************************)
(* The Store interface of store.go at the granularity its callers see: one *)
(* lease per client and the set of allocated addresses, changed by atomic  *)
(* operations.  boltStore runs each operation in one bbolt transaction;    *)
(* memoryStore runs each under leasesMu or subnetsMu, and Purge under both *)
(* so that nobody sees a lease gone before its addresses are.  The error   *)
(* returns of the file store (a transaction that fails changes nothing)    *)
(* are left to the modules that call these operations.                     *)
(***************************************************************************)
EXTENDS Naturals

CONSTANTS
  Clients,   \* the clients, named by the lease key strKey(src.String())
  Addrs      \* the addresses of every configured subnet

VARIABLES
  leases,    \* the lease saved for each client, or NoLease
  allocated  \* the allocated addresses, of all subnets

\* A Lease: its addresses and the time Start + Length at which it expires.
Lease == [ips : SUBSET Addrs, exp : Nat]
NoLease == [ips |-> {}, exp |-> 0]

Expired(l, t) == l.exp <= t

SaveLease(c, l) ==
  /\ leases' = [leases EXCEPT ![c] = l]
  /\ UNCHANGED allocated

DeleteLease(c) ==
  /\ leases' = [leases EXCEPT ![c] = NoLease]
  /\ UNCHANGED allocated

\* Mutant: no look at what is allocated already.
AllocateAnyIP(a) ==
  /\ allocated' = allocated \cup {a}
  /\ UNCHANGED leases

\* AllocateIP returning true; on an allocated address it returns false and
\* changes nothing.
AllocateIP(a) ==
  /\ a \notin allocated
  /\ allocated' = allocated \cup {a}
  /\ UNCHANGED leases

FreeIP(a) ==
  /\ allocated' = allocated \ {a}
  /\ UNCHANGED leases

\* Mutant: leases expire a second early.
ExpiringClients(t) ==
  {c \in Clients : leases[c] # NoLease /\ leases[c].exp <= t + 1}

\* The clients whose lease Purge(t) deletes, and the addresses it frees.
ExpiredClients(t) ==
  {c \in Clients : leases[c] # NoLease /\ Expired(leases[c], t)}

ExpiredIPs(t) == UNION {leases[c].ips : c \in ExpiredClients(t)}

PurgeLeases(t) ==
  /\ leases' = [c \in Clients |->
                  IF c \in ExpiredClients(t) THEN NoLease ELSE leases[c]]
  /\ allocated' = allocated \ ExpiredIPs(t)

StoreTypeOK ==
  /\ leases \in [Clients -> Lease]
  /\ allocated \subseteq Addrs

=============================================================================
