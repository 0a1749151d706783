------------------------------ MODULE Handler ------------------------------
(***************************************************************************)
(* The daemon as its clients see it: Handler.RequestIP (handler.go) run by *)
(* concurrent goroutines, one per connection, over one Store and one       *)
(* multiIPAllocator (ipallocator.go), with the purge loop of runServer     *)
(* (internal/wgipamd/server.go), the clock, failing store operations and   *)
(* crashes of the process, which keep what the file store holds.           *)
(*                                                                         *)
(* A handler holds no lock: every store operation is a step of its own, so *)
(* the lease it looked up may be purged, or its addresses given to someone *)
(* else, before it acts on it.  One unit of time is one second, the        *)
(* granularity of timeNow, and lease durations are whole seconds, so that  *)
(* comparing instants by their second is exact.                            *)
(*                                                                         *)
(* Allocate on one subnet is one step that takes any free address or finds *)
(* the subnet full: what SimpleIPAllocator promises.                       *)
(***************************************************************************)
EXTENDS Store

CONSTANTS
  Subnets,        \* the subnets, numbered in the order tryAllocate visits them
  SubnetOf,       \* the subnet of an address: configured subnets do not overlap
  FamilyOf,       \* the address family of a subnet
  Goroutines,     \* handler goroutines; bounds the concurrent connections
  Requests,       \* the requests a client may send
  LeaseDuration,  \* Handler.LeaseDuration
  Overlap,        \* may a client have two requests in flight?
  MaxTime,        \* bound on the clock
  MaxFaults,      \* bound on failed store operations plus crashes
  None            \* no client; no pending tick

Families == {"IPv4", "IPv6"}

\* A request: the families it names by a zero address, and the addresses
\* it asks for explicitly.
Request == [zeros : SUBSET Families, asked : SUBSET Addrs]

ASSUME HandlerAssumption ==
  /\ Subnets \subseteq Nat
  /\ SubnetOf \in [Addrs -> Subnets]
  /\ FamilyOf \in [Subnets -> Families]
  /\ Requests \subseteq Request
  /\ LeaseDuration \in Nat \ {0}
  /\ Overlap \in BOOLEAN
  /\ MaxTime \in Nat /\ MaxFaults \in Nat
  /\ None \notin Clients \cup Nat

VARIABLES
  h,        \* each goroutine: where it is, its client and request, its lease l
  now,      \* the time, in seconds
  purgeT,   \* the time the purge loop is about to purge with, or None
  tick,     \* the tick waiting in the ticker's channel, or None
  faults,   \* failed store operations and crashes so far
  released, \* history: addresses freed while something still claimed them
  madeFor   \* history: the families each saved lease was made for

vars == <<leases, allocated, h, now, purgeT, tick, faults, released, madeFor>>

NoRequest == [zeros |-> {}, asked |-> {}]

Idle ==
  [pc |-> "idle", client |-> None, req |-> NoRequest, ips |-> {}, exp |-> 0,
   fams |-> {}]

Labels == {"idle", "lookup", "decide", "renew", "delete", "free", "new",
           "alloc", "rollback", "save"}

\* What a goroutine knows; fams, the families the lease in its hands was made
\* for, is history too.
HandlerState ==
  [pc : Labels, client : Clients \cup {None}, req : Requests \cup {NoRequest},
   ips : SUBSET Addrs, exp : Nat, fams : SUBSET Families]

\* The addresses held on behalf of client c: those of its lease and those of
\* the leases its handlers are working on.
Claims(c) ==
  leases[c].ips \cup UNION {h[g].ips : g \in {f \in Goroutines : h[f].client = c}}

Claimed == UNION {Claims(c) : c \in Clients}

-----------------------------------------------------------------------------

At(g, label) == h[g].pc = label
Goto(g, label) == h' = [h EXCEPT ![g].pc = label]
Return(g) == h' = [h EXCEPT ![g] = Idle]

SameStore == UNCHANGED <<leases, allocated>>
SameTime == UNCHANGED <<now, purgeT, tick>>

\* A store operation that succeeds, and one that fails and changes nothing.
Works == UNCHANGED <<faults, released, madeFor>> /\ SameTime
Fault == faults < MaxFaults /\ faults' = faults + 1
Fails == Fault /\ SameStore /\ SameTime /\ UNCHANGED <<released, madeFor>>

\* Freeing A is recorded when A is still claimed after the step.
Releases(A) == released' = released \cup (A \cap Claimed')

\* The first of the addresses A and of the subnets S, in the order of
\* Lease.IPs: tryAllocate appends one address per subnet.
FirstIP(A) == {a \in A : \A b \in A : SubnetOf[a] <= SubnetOf[b]}
FirstSubnet(S) == {s \in S : \A t \in S : s <= t}

Init ==
  /\ leases = [c \in Clients |-> NoLease]
  /\ allocated = {}
  /\ h = [g \in Goroutines |-> Idle]
  /\ now = 0
  /\ purgeT = now /\ tick = None
  /\ faults = 0
  /\ released = {}
  /\ madeFor = [c \in Clients |-> {}]

\* The server accepts a connection and calls RequestIP.
RequestIP(g) ==
  /\ At(g, "idle")
  /\ \E c \in Clients, r \in Requests :
       /\ Overlap \/ \A f \in Goroutines : h[f].client # c
       /\ h' = [h EXCEPT ![g] =
                  [Idle EXCEPT !.pc = "lookup", !.client = c, !.req = r]]
  /\ SameStore /\ Works

Lookup(g) ==
  /\ At(g, "lookup")
  /\ LET l == leases[h[g].client]
     IN IF l = NoLease
          THEN Goto(g, "new")
          ELSE h' = [h EXCEPT ![g].pc = "decide", ![g].ips = l.ips,
                              ![g].exp = l.exp, ![g].fams = madeFor[h[g].client]]
  /\ SameStore /\ Works

LookupFails(g) == At(g, "lookup") /\ Fails /\ Return(g)

\* Mutant: the lease counts as expired a second early.
DecideEarly(g) ==
  /\ At(g, "decide")
  /\ Goto(g, IF Expired(h[g], now + 1) THEN "delete" ELSE "renew")
  /\ SameStore /\ Works

Decide(g) ==
  /\ At(g, "decide")
  /\ Goto(g, IF Expired(h[g], now) THEN "delete" ELSE "renew")
  /\ SameStore /\ Works

\* Mutant: renewing adds to what is left of the lease.
RenewLeaseExtends(g) ==
  /\ At(g, "renew")
  /\ h[g].req.asked \subseteq h[g].ips
  /\ h' = [h EXCEPT ![g].pc = "save", ![g].exp = @ + LeaseDuration]
  /\ SameStore /\ Works

\* renewLease: every address asked for must be one of the lease's.
RenewLease(g) ==
  /\ At(g, "renew")
  /\ h[g].req.asked \subseteq h[g].ips
  /\ h' = [h EXCEPT ![g].pc = "save", ![g].exp = now + LeaseDuration]
  /\ SameStore /\ Works

RefuseRenewal(g) ==
  /\ At(g, "renew")
  /\ ~(h[g].req.asked \subseteq h[g].ips)
  /\ Return(g)
  /\ SameStore /\ Works

\* The expired lease is deleted, then its addresses are freed one by one;
\* failures are only logged.
DeleteExpired(g) ==
  /\ At(g, "delete")
  /\ Goto(g, "free")
  /\ \/ DeleteLease(h[g].client) /\ Works
     \/ Fails

\* Mutant: the loop never gets past the first address.
FreeFirstForever(g) ==
  /\ At(g, "free")
  /\ \E a \in FirstIP(h[g].ips) : UNCHANGED h /\ FreeIP(a) /\ Releases({a})
  /\ SameTime /\ UNCHANGED <<faults, madeFor>>

FreeExpired(g) ==
  /\ At(g, "free")
  /\ \E a \in FirstIP(h[g].ips) :
       /\ h' = [h EXCEPT ![g].ips = @ \ {a}]
       /\ \/ FreeIP(a) /\ Releases({a}) /\ SameTime /\ UNCHANGED <<faults, madeFor>>
          \/ Fails

\* The families a request is for: those it names, or both.
WantedFamilies(r) == IF r.zeros = {} THEN Families ELSE r.zeros

\* newLease: explicit addresses are refused.
StartsNewLease(g) == At(g, "new") \/ (At(g, "free") /\ h[g].ips = {})

NewLease(g) ==
  /\ StartsNewLease(g)
  /\ h[g].req.asked = {}
  /\ h' = [h EXCEPT ![g].pc = "alloc", ![g].exp = 0,
                    ![g].fams = WantedFamilies(h[g].req)]
  /\ SameStore /\ Works

RefuseNew(g) ==
  /\ StartsNewLease(g)
  /\ h[g].req.asked # {}
  /\ Return(g)
  /\ SameStore /\ Works

\* The subnets tryAllocate visits, and those it has yet to visit.
Visited(r) == {s \in Subnets : FamilyOf[s] \in WantedFamilies(r)}

Remaining(g) == Visited(h[g].req) \ {SubnetOf[a] : a \in h[g].ips}

AddrsOf(s) == {a \in Addrs : SubnetOf[a] = s}

Allocate(g) ==
  /\ At(g, "alloc")
  /\ \E s \in FirstSubnet(Remaining(g)) : \E a \in AddrsOf(s) :
       /\ AllocateIP(a)
       /\ h' = [h EXCEPT ![g].ips = @ \cup {a}]
  /\ Works

\* Mutants: what was allocated so far is forgotten; it is saved all the same.
OutOfAddressesForgets(g) ==
  /\ At(g, "alloc")
  /\ \E s \in FirstSubnet(Remaining(g)) : AddrsOf(s) \subseteq allocated
  /\ Return(g)
  /\ SameStore /\ Works

OutOfAddressesSaves(g) ==
  /\ At(g, "alloc")
  /\ \E s \in FirstSubnet(Remaining(g)) : AddrsOf(s) \subseteq allocated
  /\ IF h[g].ips = {}
       THEN Return(g)
       ELSE h' = [h EXCEPT ![g].pc = "save", ![g].exp = now + LeaseDuration]
  /\ SameStore /\ Works

OutOfAddresses(g) ==
  /\ At(g, "alloc")
  /\ \E s \in FirstSubnet(Remaining(g)) : AddrsOf(s) \subseteq allocated
  /\ Goto(g, "rollback")
  /\ SameStore /\ Works

AllocateFails(g) ==
  /\ At(g, "alloc")
  /\ Remaining(g) # {}
  /\ Goto(g, "rollback")
  /\ Fails

\* Every subnet visited: stamp the lease, unless nothing was allocated at all.
StampLease(g) ==
  /\ At(g, "alloc")
  /\ Remaining(g) = {}
  /\ h[g].ips # {}
  /\ h' = [h EXCEPT ![g].pc = "save", ![g].exp = now + LeaseDuration]
  /\ SameStore /\ Works

\* Mutant: an empty allocation counts as one.
NothingAllocatedSaves(g) ==
  /\ At(g, "alloc")
  /\ Remaining(g) = {}
  /\ h[g].ips = {}
  /\ h' = [h EXCEPT ![g].pc = "save", ![g].exp = now + LeaseDuration]
  /\ SameStore /\ Works

NothingAllocated(g) ==
  /\ At(g, "alloc")
  /\ Remaining(g) = {}
  /\ h[g].ips = {}
  /\ Return(g)
  /\ SameStore /\ Works

\* Allocate gives back what tryAllocate got; the first failure ends that.
Rollback(g) ==
  /\ At(g, "rollback")
  /\ \E a \in FirstIP(h[g].ips) :
       \/ /\ h' = [h EXCEPT ![g].ips = @ \ {a}]
          /\ FreeIP(a) /\ Releases({a}) /\ SameTime /\ UNCHANGED <<faults, madeFor>>
       \/ Return(g) /\ Fails

RolledBack(g) ==
  /\ At(g, "rollback")
  /\ h[g].ips = {}
  /\ Return(g)
  /\ SameStore /\ Works

\* SaveLease of a new or a renewed lease; on failure the client gets an error.
Save(g) ==
  /\ At(g, "save")
  /\ Return(g)
  /\ \/ /\ SaveLease(h[g].client, [ips |-> h[g].ips, exp |-> h[g].exp])
        /\ madeFor' = [madeFor EXCEPT ![h[g].client] = h[g].fams]
        /\ SameTime /\ UNCHANGED <<faults, released>>
     \/ Fails

HandlerStep(g) ==
  \/ Lookup(g) \/ LookupFails(g) \/ Decide(g)
  \/ RenewLease(g) \/ RefuseRenewal(g)
  \/ DeleteExpired(g) \/ FreeExpired(g)
  \/ NewLease(g) \/ RefuseNew(g)
  \/ Allocate(g) \/ OutOfAddresses(g) \/ AllocateFails(g)
  \/ StampLease(g) \/ NothingAllocated(g)
  \/ Rollback(g) \/ RolledBack(g)
  \/ Save(g)

\* Mutant: the loop keeps purging with the time it started at.
PurgeTickZero ==
  /\ purgeT = None
  /\ purgeT' = 0
  /\ UNCHANGED <<leases, allocated, h, now, tick, faults, released, madeFor>>

\* The ticker fires: a waiting loop receives the tick, a busy one finds it in
\* the channel later, and a tick that finds the channel full is dropped.
PurgeTick ==
  /\ \/ purgeT = None /\ purgeT' = now /\ UNCHANGED tick
     \/ purgeT # None /\ tick = None /\ tick' = now /\ UNCHANGED purgeT
  /\ UNCHANGED <<leases, allocated, h, now, faults, released, madeFor>>

\* The loop purges with the time of its tick, however long ago it fired, and
\* receives the next one.
Purge ==
  /\ purgeT # None
  /\ purgeT' = tick
  /\ tick' = None
  /\ UNCHANGED <<h, now, madeFor>>
  /\ \/ PurgeLeases(purgeT) /\ Releases(ExpiredIPs(purgeT)) /\ UNCHANGED faults
     \/ Fault /\ SameStore /\ UNCHANGED released

Tick ==
  /\ now < MaxTime
  /\ now' = now + 1
  /\ UNCHANGED <<leases, allocated, h, purgeT, tick, faults, released, madeFor>>

\* The process dies and starts again on the same file: handlers are gone, the
\* purge loop starts with the current time.
Crash ==
  /\ Fault
  /\ h' = [g \in Goroutines |-> Idle]
  /\ purgeT' = now
  /\ tick' = None
  /\ UNCHANGED <<leases, allocated, now, released, madeFor>>

Next ==
  \/ \E g \in Goroutines : RequestIP(g) \/ HandlerStep(g)
  \/ PurgeTick \/ Purge \/ Tick \/ Crash

Spec == Init /\ [][Next]_vars

\* Goroutines that can run do run, and the ticker keeps firing.
Fairness ==
  /\ \A g \in Goroutines : WF_vars(HandlerStep(g))
  /\ WF_vars(PurgeTick) /\ WF_vars(Purge)

FairSpec == Spec /\ Fairness

-----------------------------------------------------------------------------

\* Ticks come from the past, and no lease lasts longer than LeaseDuration from
\* now, saved or about to be.
TypeOK ==
  /\ StoreTypeOK
  /\ h \in [Goroutines -> HandlerState]
  /\ now \in Nat
  /\ {purgeT, tick} \subseteq 0 .. now \cup {None}
  /\ faults \in Nat
  /\ released \subseteq Addrs
  /\ madeFor \in [Clients -> SUBSET Families]
  /\ \A c \in Clients : leases[c].exp <= now + LeaseDuration
  /\ \A g \in Goroutines : h[g].exp <= now + LeaseDuration

\* An address that a lease, or a handler, holds for a client is allocated and
\* held for no other client, whatever interleaves, fails or crashes: the only
\* way out is an address freed while it was still held (AllocateIP,
\* store.go:264, 556, is the one gate).
Exclusive ==
  \A c \in Clients : \A a \in Claims(c) \ released :
    a \in allocated /\ \A d \in Clients \ {c} : a \notin Claims(d)

\* A client with one request at a time keeps the addresses of its lease, and
\* at least its time, until the lease expires (handler.go:113, 212).
LeaseHonoured ==
  [][~Overlap =>
       \A c \in Clients :
         leases[c] # NoLease /\ ~Expired(leases[c], now) =>
           /\ leases'[c].ips = leases[c].ips
           /\ leases'[c].exp >= leases[c].exp]_vars

\* No purge, expired-lease cleanup or rollback frees an address of an
\* unexpired lease, unless a race freed it before (store.go:42-43).
UnexpiredKept ==
  [][~Overlap =>
       \A c \in Clients : ~Expired(leases[c], now) =>
         \A a \in (leases[c].ips \cap allocated) \ released :
           a \in allocated']_vars

\* Unless an operation fails or the process dies, an allocated address is
\* always held by someone who will free it: rollback and cleanup leave none
\* behind (ipallocator.go:145-147, handler.go:118).
NoLeak == ~Overlap /\ faults = 0 => allocated \subseteq Claimed

\* For some families, the addresses that make a whole lease: one of each of
\* their subnets, and at least one.
WholeLeases ==
  [F \in SUBSET Families |->
     {A \in (SUBSET Addrs) \ {{}} :
        /\ {SubnetOf[a] : a \in A} = {s \in Subnets : FamilyOf[s] \in F}
        /\ \A a, b \in A : SubnetOf[a] = SubnetOf[b] => a = b}]

\* A saved lease, however often it was renewed since, has exactly one address of
\* each subnet of the families its client asked for when it was made, and at
\* least one: partial allocations are rolled back, never saved, and a request no
\* subnet can serve is refused (ipallocator.go:180-185).
WholeLease ==
  \A c \in Clients : leases[c] # NoLease => leases[c].ips \in WholeLeases[madeFor[c]]

\* To clients that take turns the daemon is LeaseService: whatever handlers, the
\* purge loop, failing operations and crashes do, a lease is granted whole and
\* kept or prolonged until it expires (handler.go:101-216).
Leasing == INSTANCE LeaseService WITH contested <- released

ImplementsLeasing == Leasing!Spec

\* Every request is answered: no goroutine stays with one for ever
\* (handler.go:101-137).
RequestAnswered == \A g \in Goroutines : []<>At(g, "idle")

\* An expired lease does not stay: it is renewed, replaced or purged
\* (internal/wgipamd/server.go:180-195).
ExpiredPurged ==
  \A c \in Clients : []<>(leases[c] = NoLease \/ ~Expired(leases[c], now))

\* The addresses of an unexpired lease are allocated, so that nobody else can
\* get them (lease.go:23: "A Lease is a record of allocated IP addresses
\* assigned to a client.").
LeaseBacked ==
  \A c \in Clients : ~Expired(leases[c], now) => leases[c].ips \subseteq allocated

=============================================================================
