----------------------------- MODULE FileStore -----------------------------
(***************************************************************************)
(* boltStore (store.go 310-603) and the gauges that metricsIPStore keeps   *)
(* beside it (metrics.go 64-173), from one start of the daemon to the      *)
(* next.  The file holds the leases and one bucket of addresses for each   *)
(* subnet, under the subnet's CIDR string; s.subnets holds the subnets of  *)
(* this run, which after a restart may be others.                          *)
(*                                                                         *)
(* Every operation is one bbolt transaction.  A write transaction holds    *)
(* bbolt's writer lock, so an operation that takes no other lock is one    *)
(* step that needs it free.  Purge takes s.mu inside its transaction,      *)
(* SaveSubnet its transaction inside s.mu.  The callers are the handlers,  *)
(* one for each client.  Any write may fail, which leaves no trace in the  *)
(* file, and a crash, or an exit, may come at any time.                    *)
(*                                                                         *)
(* An operation and the Inc, Dec or Sub of a gauge that follows it are one *)
(* step: these are atomic additions, and no code reads a gauge.            *)
(***************************************************************************)
EXTENDS Config, Integers, FiniteSets

CONSTANTS
  Clients, Addrs,
  Prefixes,       \* the subnets that may be configured
  MaxSubnets,     \* bound on the subnets of one configuration
  LeaseDuration,
  MaxTime,        \* bound on the clock
  MaxFaults,      \* bound on crashes and on writes of a handler that fail
  None            \* no purge is running

ASSUME FileStoreAssumption ==
  /\ IsFiniteSet(Clients) /\ IsFiniteSet(Addrs) /\ IsFiniteSet(Prefixes)
  /\ Prefixes \subseteq (SUBSET Addrs) \ {{}}
  /\ Nested(Prefixes)
  /\ MaxSubnets \in Nat /\ MaxTime \in Nat /\ MaxFaults \in Nat
  /\ LeaseDuration \in Nat \ {0}
  /\ None \notin Nat

VARIABLES
  leases, buckets,  \* the file: the leases, and the addresses of each subnet
  cfg,              \* the subnets configured for this run, in order
  saved,            \* how many of them are in s.subnets
  main,             \* where the start-up is: "lock", "commit" or "serve"
  purge,            \* the time of the Purge whose transaction runs, or None
  h,                \* each client's handler: place and the lease it works on
  gauge,            \* ips_allocated of each subnet
  now, faults,
  released,  \* history: addresses freed for a client that still claims them
  lost       \* history: entries of buckets that were let go of, not deleted

vars == <<leases, buckets, cfg, saved, main, purge, h, gauge, now, faults,
          released, lost>>

NoLease == [ips |-> {}, exp |-> 0]
Expired(l, t) == l.exp <= t

Idle == [pc |-> "idle", ips |-> {}, n |-> 0]

Made == DOMAIN buckets
Subnets == {cfg[k] : k \in 1 .. saved}

\* The addresses held for c: by its lease and by its handler.
Claims(c) == leases[c].ips \cup h[c].ips

Entries == {e \in Prefixes \X Addrs : e[1] \in Made /\ e[2] \in buckets[e[1]]}

\* These addresses are forgotten, whatever buckets record them.
Abandon(A) == lost' = lost \cup {e \in Entries : e[2] \in A}

Fault == faults < MaxFaults /\ faults' = faults + 1

Configurations ==
  {f \in UNION {[1 .. n -> Prefixes] : n \in 0 .. MaxSubnets} : CheckSubnets(f)}

\* Mutant: the gauges start at zero.
CountedNone(bs) == [p \in Prefixes |-> 0]

\* IPStoreMetrics counts what the file holds, before any subnet is saved.
CountedIn(bs) ==
  [p \in Prefixes |-> IF p \in DOMAIN bs THEN Cardinality(bs[p]) ELSE 0]

-----------------------------------------------------------------------------

Init ==
  /\ leases = [c \in Clients |-> NoLease]
  /\ buckets = <<>>
  /\ cfg \in Configurations /\ saved = 0 /\ main = "lock"
  /\ purge = None
  /\ h = [c \in Clients |-> Idle]
  /\ gauge = CountedIn(buckets)
  /\ now = 0 /\ faults = 0
  /\ released = {} /\ lost = {}

Tick ==
  /\ now < MaxTime
  /\ now' = now + 1
  /\ UNCHANGED <<leases, buckets, cfg, saved, main, purge, h, gauge, faults,
                 released, lost>>

\* Addresses that no lease names and that the process was about to save, or
\* to free.
Unsaved == UNION {h[c].ips : c \in {d \in Clients :
                                      h[d].pc \in {"alloc", "free", "rollback"}}}

\* The process ends at any point and starts on the same file, perhaps with
\* another configuration; a transaction that runs leaves no trace.
Restart ==
  /\ Fault
  /\ cfg' \in Configurations /\ saved' = 0 /\ main' = "lock"
  /\ purge' = None
  /\ h' = [c \in Clients |-> Idle]
  /\ gauge' = CountedIn(buckets)
  /\ Abandon(Unsaved)
  /\ UNCHANGED <<leases, buckets, now, released>>

-----------------------------------------------------------------------------
\* SaveSubnet, called for each configured subnet before anything is served.

SaveSubnetLock ==
  /\ main = "lock"
  /\ saved' = saved + 1
  /\ main' = "commit"
  /\ UNCHANGED <<leases, buckets, cfg, purge, h, gauge, now, faults,
                 released, lost>>

WriterFree == purge = None
MuFree == main # "commit"

\* Mutant: CreateBucket, which fails if the bucket exists, tried until it works.
SaveSubnetCreates ==
  /\ main = "commit"
  /\ WriterFree
  /\ IF cfg[saved] \in Made
       THEN UNCHANGED buckets /\ saved' = saved - 1 /\ main' = "lock"
       ELSE /\ buckets' = [p \in Made \cup {cfg[saved]} |->
                             IF p \in Made THEN buckets[p] ELSE {}]
            /\ saved' = saved
            /\ main' = IF saved = Len(cfg) THEN "serve" ELSE "lock"
  /\ UNCHANGED <<leases, cfg, purge, h, gauge, now, faults, released, lost>>

SaveSubnetCommit ==
  /\ main = "commit"
  /\ WriterFree
  /\ buckets' = [p \in Made \cup {cfg[saved]} |->
                   IF p \in Made THEN buckets[p] ELSE {}]
  /\ main' = IF saved = Len(cfg) THEN "serve" ELSE "lock"
  /\ UNCHANGED <<leases, cfg, saved, purge, h, gauge, now, faults,
                 released, lost>>

-----------------------------------------------------------------------------
\* Freeing.

\* For each <<client, address>> of owed the address is deleted from the
\* bucket of the configured subnet that contains it, if there is one, and
\* taken off its gauge, even if it was not there.  What other buckets record
\* is forgotten.
FreeIPs(owed) ==
  LET A == {o[2] : o \in owed}
  IN /\ buckets' = [p \in Made |->
                      IF p \in Subnets THEN buckets[p] \ A ELSE buckets[p]]
     /\ gauge' = [p \in Prefixes |->
                    IF p \in Subnets
                      THEN gauge[p] - Cardinality({o \in owed : o[2] \in p})
                      ELSE gauge[p]]
     /\ released' = released \cup {o[2] : o \in {x \in owed : x[2] \in Claims(x[1])'}}
     /\ lost' = {e \in lost : e[1] \notin Subnets \/ e[2] \notin A}
                  \cup {e \in Entries : e[1] \notin Subnets /\ e[2] \in A}

\* The purge loop calls Purge, which gets the writer lock.
PurgeBegin ==
  /\ main = "serve"
  /\ WriterFree
  /\ purge' = now
  /\ UNCHANGED <<leases, buckets, cfg, saved, main, h, gauge, now, faults,
                 released, lost>>

ExpiredClients(t) ==
  {c \in Clients : leases[c] # NoLease /\ Expired(leases[c], t)}

\* The expired leases are deleted, then s.mu is taken for the sweep over
\* s.subnets; all of it is committed at once.
PurgeCommit ==
  /\ purge # None
  /\ MuFree
  /\ leases' = [c \in Clients |->
                  IF c \in ExpiredClients(purge) THEN NoLease ELSE leases[c]]
  /\ UNCHANGED h
  /\ FreeIPs({o \in Clients \X Addrs :
                o[1] \in ExpiredClients(purge) /\ o[2] \in leases[o[1]].ips})
  /\ purge' = None
  /\ UNCHANGED <<cfg, saved, main, now, faults>>

\* An error rolls the transaction back.
PurgeFails ==
  /\ purge # None
  /\ MuFree
  /\ purge' = None
  /\ UNCHANGED <<leases, buckets, cfg, saved, main, h, gauge, now, faults,
                 released, lost>>

-----------------------------------------------------------------------------
\* The handler of client c (handler.go, ipallocator.go).

At(c, label) == main = "serve" /\ h[c].pc = label
Work(c, pc, ips, n) == h' = [h EXCEPT ![c] = [pc |-> pc, ips |-> ips, n |-> n]]

\* What follows depends on the lease as it is now.
Lookup(c) ==
  /\ At(c, "idle")
  /\ IF leases[c] = NoLease THEN Work(c, "alloc", {}, 0)
     ELSE Work(c, IF Expired(leases[c], now) THEN "delete" ELSE "renew",
               leases[c].ips, 0)
  /\ UNCHANGED <<leases, buckets, cfg, saved, main, purge, gauge, now, faults,
                 released, lost>>

\* SaveLease of the lease that was looked up, or of a new one.
Save(c) ==
  /\ WriterFree
  /\ At(c, "renew") \/ (At(c, "alloc") /\ h[c].n = Len(cfg))
  /\ leases' = [leases EXCEPT
                  ![c] = [ips |-> h[c].ips, exp |-> now + LeaseDuration]]
  /\ h' = [h EXCEPT ![c] = Idle]
  /\ UNCHANGED <<buckets, cfg, saved, main, purge, gauge, now, faults,
                 released, lost>>

\* A renewal is refused, or saving it fails.
RenewFails(c) ==
  /\ At(c, "renew")
  /\ h' = [h EXCEPT ![c] = Idle]
  /\ UNCHANGED <<leases, buckets, cfg, saved, main, purge, gauge, now, faults,
                 released, lost>>

\* Saving a new lease fails; what was allocated for it stays allocated.
SaveFails(c) ==
  /\ WriterFree /\ Fault
  /\ At(c, "alloc") /\ h[c].n = Len(cfg)
  /\ h' = [h EXCEPT ![c] = Idle]
  /\ Abandon(h[c].ips)
  /\ UNCHANGED <<leases, buckets, cfg, saved, main, purge, gauge, now, released>>

DeleteLease(c) ==
  /\ WriterFree
  /\ At(c, "delete")
  /\ leases' = [leases EXCEPT ![c] = NoLease]
  /\ Work(c, "free", h[c].ips, h[c].n)
  /\ UNCHANGED <<buckets, cfg, saved, main, purge, gauge, now, faults,
                 released, lost>>

\* The error is logged.
DeleteFails(c) ==
  /\ WriterFree /\ Fault
  /\ At(c, "delete")
  /\ Work(c, "free", h[c].ips, h[c].n)
  /\ UNCHANGED <<leases, buckets, cfg, saved, main, purge, gauge, now, released,
                 lost>>

\* On to the next address, or to what follows the last one.
Dropped(c, a) ==
  IF h[c].ips # {a} THEN Work(c, h[c].pc, h[c].ips \ {a}, h[c].n)
  ELSE Work(c, IF h[c].pc = "free" THEN "alloc" ELSE "idle", {}, 0)

\* multiIPAllocator.Free of one address; the allocator of a subnet that does
\* not contain it does nothing.
FreeIP(c) ==
  /\ WriterFree
  /\ At(c, "free") \/ At(c, "rollback")
  /\ \E a \in h[c].ips :
       /\ Dropped(c, a)
       /\ UNCHANGED leases
       /\ FreeIPs({<<c, a>>})
  /\ UNCHANGED <<cfg, saved, main, purge, now, faults>>

\* The cleanup of an expired lease logs the error and goes on; a rollback ends
\* with it and leaves the rest allocated.
FreeFails(c) ==
  /\ WriterFree /\ Fault
  /\ \E a \in h[c].ips \cap UNION Subnets :
       \/ /\ At(c, "free")
          /\ Dropped(c, a)
          /\ Abandon({a})
       \/ /\ At(c, "rollback")
          /\ h' = [h EXCEPT ![c] = Idle]
          /\ Abandon(h[c].ips)
  /\ UNCHANGED <<leases, buckets, cfg, saved, main, purge, gauge, now, released>>

\* Mutant: AllocateIP does not look whether the subnet contains the address.
FreeAnywhere(s) == Addrs \ buckets[s]

FreeIn(s) == s \ buckets[s]

\* One address of the next subnet.
AllocateIP(c) ==
  /\ WriterFree
  /\ At(c, "alloc")
  /\ h[c].n < Len(cfg)
  /\ LET s == cfg[h[c].n + 1]
     IN \E a \in FreeIn(s) :
          /\ buckets' = [buckets EXCEPT ![s] = @ \cup {a}]
          /\ gauge' = [gauge EXCEPT ![s] = @ + 1]
          /\ Work(c, "alloc", h[c].ips \cup {a}, h[c].n + 1)
  /\ UNCHANGED <<leases, cfg, saved, main, purge, now, faults, released, lost>>

\* Mutant: what was allocated is forgotten.
GiveUpForgets(c) ==
  /\ At(c, "alloc")
  /\ h[c].n < Len(cfg)
  /\ h' = [h EXCEPT ![c] = Idle]
  /\ UNCHANGED <<leases, buckets, cfg, saved, main, purge, gauge, now, faults,
                 released, lost>>

\* A subnet is full, or allocating failed: what was allocated is given back.
\* With nothing allocated, also a request that is refused.
GiveUp(c) ==
  /\ At(c, "alloc")
  /\ h[c].n < Len(cfg)
  /\ Work(c, IF h[c].ips = {} THEN "idle" ELSE "rollback", h[c].ips,
          IF h[c].ips = {} THEN 0 ELSE h[c].n)
  /\ UNCHANGED <<leases, buckets, cfg, saved, main, purge, gauge, now, faults,
                 released, lost>>

Next ==
  \/ Tick \/ Restart
  \/ SaveSubnetLock \/ SaveSubnetCommit
  \/ PurgeBegin \/ PurgeCommit \/ PurgeFails
  \/ \E c \in Clients :
       \/ Lookup(c) \/ Save(c) \/ RenewFails(c) \/ SaveFails(c)
       \/ DeleteLease(c) \/ DeleteFails(c) \/ FreeIP(c) \/ FreeFails(c)
       \/ AllocateIP(c) \/ GiveUp(c)

Spec == Init /\ [][Next]_vars

\* The start-up and a running purge go on when they can.
FairSpec ==
  Spec /\ WF_vars(SaveSubnetLock \/ SaveSubnetCommit)
       /\ WF_vars(PurgeCommit \/ PurgeFails)

-----------------------------------------------------------------------------

TypeOK ==
  /\ leases \in [Clients -> [ips : SUBSET Addrs, exp : Nat]]
  /\ Made \subseteq Prefixes
  /\ \A p \in Made : buckets[p] \subseteq p
  /\ cfg \in Configurations
  /\ saved \in 0 .. Len(cfg)
  /\ main \in {"lock", "commit", "serve"}
  /\ purge \in Nat \cup {None}
  /\ h \in [Clients -> [pc : {"idle", "alloc", "renew", "delete", "free", "rollback"},
                        ips : SUBSET Addrs, n : 0 .. MaxSubnets]]
  /\ gauge \in [Prefixes -> Int]
  /\ now \in Nat /\ faults \in Nat
  /\ released \subseteq Addrs
  /\ lost \subseteq Prefixes \X Addrs

\* No address is held for more clients than there are subnets whose buckets
\* record it, over restarts and changes of the subnets, unless it was freed
\* for a client that still held it: what is written is kept, and freeing for
\* one client takes away one entry at most (store.go:413-603, config.go:257).
HoldersRecorded ==
  \A a \in Addrs \ released :
    Cardinality({c \in Clients : a \in Claims(c)})
      <= Cardinality({p \in Made : a \in buckets[p]})

\* An address nobody holds is recorded only where a crash left it, or a write
\* that failed: saving the lease it was for (handler.go:175), or freeing it
\* (handler.go:129, ipallocator.go:149); or where it was freed while its
\* subnet was not configured (store.go:469-484).
LeaksKnown == \A e \in Entries : e \in lost \/ \E c \in Clients : e[2] \in Claims(c)

\* The gauge of a configured subnet is the number of its allocated addresses
\* (metrics.go:87), unless an address of it was freed while held, or is
\* recorded under another subnet, of an earlier configuration.
GaugeExact ==
  \A p \in Subnets \cap Made :
    p \cap released = {} /\ (\A q \in Made \ Subnets : p \cap buckets[q] = {})
      => gauge[p] = Cardinality(buckets[p])

\* The start-up comes to an end, and so does every purge: s.mu and bbolt's
\* writer lock, which they take in opposite orders, never block both.
StartsAndPurges ==
  /\ main # "serve" ~> main = "serve"
  /\ purge # None ~> purge = None

\* No two clients hold unexpired leases of one address (store.go:577: "so that
\* other callers can't reserve the same address").
LeasedOnce ==
  \A c, d \in Clients : \A a \in leases[c].ips \cap leases[d].ips :
    c = d \/ Expired(leases[c], now) \/ Expired(leases[d], now)

=============================================================================
