---------------------------- MODULE LeaseService ----------------------------
(***************************************************************************)
(* What a client of the daemon may rely on, without handlers, purge loop,  *)
(* allocator or store: a lease that lasts until it expires can only be     *)
(* prolonged; one that has expired is forgotten or replaced by one that is *)
(* whole for the families asked for, whose addresses no other lease has.   *)
(* The exception is named: an address may become contested, while the      *)
(* lease that has it is expired, when it is freed under a handler that is  *)
(* still working on that lease.                                            *)
(* Handler implements this when no client has two requests in flight.      *)
(***************************************************************************)
EXTENDS Naturals

CONSTANTS
  Clients,
  LeaseDuration,  \* how long a lease lasts, in units of now
  WholeLeases     \* for some families, the sets of addresses leased together

VARIABLES
  leases,    \* the lease of each client, or NoLease
  now,       \* the time
  contested, \* the addresses that two leases may come to share
  madeFor    \* the families each lease was granted for

vars == <<leases, now, contested, madeFor>>

NoLease == [ips |-> {}, exp |-> 0]
Expired(l, t) == l.exp <= t

Lapsed == {c \in Clients : Expired(leases[c], now)}

LapsedIPs == UNION {leases[c].ips : c \in Lapsed}

Init ==
  /\ leases = [c \in Clients |-> NoLease]
  /\ now = 0
  /\ contested = {}
  /\ madeFor = [c \in Clients |-> {}]

Tick == now' = now + 1 /\ UNCHANGED <<leases, contested, madeFor>>

\* The lease the client gets may itself have expired when it is saved.
Grant(c) ==
  /\ c \in Lapsed
  /\ \E F \in DOMAIN WholeLeases :
       /\ madeFor' = [madeFor EXCEPT ![c] = F]
       /\ \E ips \in WholeLeases[F], exp \in 0 .. now + LeaseDuration :
            /\ \A d \in Clients \ {c} : ips \cap leases[d].ips \subseteq contested
            /\ leases' = [leases EXCEPT ![c] = [ips |-> ips, exp |-> exp]]
  /\ UNCHANGED <<now, contested>>

Renew(c) ==
  /\ c \notin Lapsed
  /\ \E exp \in leases[c].exp .. now + LeaseDuration :
       leases' = [leases EXCEPT ![c].exp = exp]
  /\ UNCHANGED <<now, contested, madeFor>>

Forget ==
  /\ \E C \in SUBSET Lapsed :
       leases' = [c \in Clients |-> IF c \in C THEN NoLease ELSE leases[c]]
  /\ \E A \in SUBSET LapsedIPs : contested' = contested \cup A
  /\ UNCHANGED <<now, madeFor>>

Next == Tick \/ Forget \/ \E c \in Clients : Grant(c) \/ Renew(c)

Spec == Init /\ [][Next]_vars

=============================================================================
