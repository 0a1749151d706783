---------------------------- MODULE LeaseProofs ----------------------------
(***************************************************************************)
(* What Handler promises about leases, for any number of clients, handler  *)
(* goroutines, addresses and subnets.  A saved lease is whole, with        *)
(* overlapping requests too.  With one request per client at a time, a     *)
(* lease is honoured until it expires, its addresses stay allocated,       *)
(* without a fault no address is left to nobody, and the daemon as a whole *)
(* implements LeaseService.                                                *)
(***************************************************************************)
EXTENDS HandlerProofs

\* A step of goroutine g leaves the others, their clients' leases and the
\* times alone.
LEMMA StepFrame ==
  ASSUME IInv, NEW g \in Goroutines, HandlerStep(g)
  PROVE  /\ ~At(g, "idle")
         /\ \A f \in Goroutines \ {g} : h'[f] = h[f]
         /\ h'[g] = Idle \/ (h'[g].client = h[g].client /\ h'[g].req = h[g].req)
         /\ \A c \in Clients \ {h[g].client} :
              leases'[c] = leases[c] /\ madeFor'[c] = madeFor[c]
         /\ now' = now /\ purgeT' = purgeT /\ tick' = tick
         /\ faults' = 0 => faults = 0
  <1> USE DEF SameStore, SameTime, Works
  <1>1. /\ h \in [Goroutines -> HandlerState] /\ leases \in [Clients -> Lease]
        /\ faults \in Nat /\ madeFor \in [Clients -> SUBSET Families]
    BY DEF IInv, Core, Types, StoreTypeOK
  <1>2. CASE Lookup(g) \/ Decide(g) \/ RenewLease(g) \/ NewLease(g)
             \/ OutOfAddresses(g) \/ StampLease(g)
    BY <1>1, <1>2 DEF Lookup, Decide, RenewLease, NewLease, StartsNewLease,
                      OutOfAddresses, StampLease, Goto, At, HandlerState
  <1>3. CASE RefuseRenewal(g) \/ RefuseNew(g) \/ NothingAllocated(g) \/ RolledBack(g)
    BY <1>1, <1>3 DEF RefuseRenewal, RefuseNew, StartsNewLease, NothingAllocated,
                      RolledBack, Return, At
  <1>4. CASE LookupFails(g) \/ AllocateFails(g)
    BY <1>1, <1>4 DEF LookupFails, AllocateFails, Fails, Fault, Return, Goto, At,
                      HandlerState
  <1>5. CASE DeleteExpired(g) \/ Save(g)
    BY <1>1, <1>5 DEF DeleteExpired, Save, DeleteLease, SaveLease, Fails, Fault,
                      Return, Goto, At, HandlerState
  <1>6. CASE FreeExpired(g) \/ Rollback(g) \/ Allocate(g)
    <2>1. PICK ips : h' = [h EXCEPT ![g].ips = ips] \/ Return(g)
      BY <1>6 DEF FreeExpired, Rollback, Allocate
    <2>2. \/ Fails
          \/ /\ SameTime /\ faults' = faults /\ madeFor' = madeFor
             /\ \E a : FreeIP(a) \/ AllocateIP(a)
      BY <1>6 DEF FreeExpired, Rollback, Allocate
    <2>3. leases' = leases /\ madeFor' = madeFor /\ SameTime /\ (faults' = 0 => faults = 0)
      BY <1>1, <2>2 DEF FreeIP, AllocateIP, Fails, Fault
    <2>4. ~At(g, "idle")
      BY <1>6 DEF FreeExpired, Rollback, Allocate, At
    <2> QED
      BY <1>1, <2>1, <2>3, <2>4 DEF Return, HandlerState
  <1> QED
    BY <1>2, <1>3, <1>4, <1>5, <1>6 DEF HandlerStep

-----------------------------------------------------------------------------
\* Whole leases.

OneEach(A) == \A a, b \in A : SubnetOf[a] = SubnetOf[b] => a = b

SubnetsOf(A) == {SubnetOf[a] : a \in A}

SubnetsFor(F) == {s \in Subnets : FamilyOf[s] \in F}

Whole(A, F) == A # {} /\ SubnetsOf(A) = SubnetsFor(F) /\ OneEach(A)

LEMMA WholeIsWhole ==
  ASSUME NEW A \in SUBSET Addrs, NEW F \in SUBSET Families
  PROVE  Whole(A, F) <=> A \in WholeLeases[F]
  <1>1. WholeLeases[F] =
          {B \in (SUBSET Addrs) \ {{}} :
             /\ {SubnetOf[a] : a \in B} = {s \in Subnets : FamilyOf[s] \in F}
             /\ \A a, b \in B : SubnetOf[a] = SubnetOf[b] => a = b}
    BY DEF WholeLeases
  <1> QED
    BY <1>1 DEF Whole, SubnetsOf, SubnetsFor, OneEach

\* What a goroutine holds: nothing yet, a whole lease, or a part of one.
Shape(s) ==
  /\ s.pc \in {"lookup", "new"} => s.ips = {}
  /\ s.pc \in {"decide", "renew", "save"} => Whole(s.ips, s.fams)
  /\ s.pc = "alloc" =>
       /\ SubnetsFor(s.fams) = Visited(s.req)
       /\ SubnetsOf(s.ips) \subseteq Visited(s.req)
       /\ OneEach(s.ips)

WInv ==
  /\ \A g \in Goroutines : Shape(h[g])
  /\ \A c \in Clients : leases[c] # NoLease => Whole(leases[c].ips, madeFor[c])

LEMMA IdleShape == Shape(Idle)
  BY DEF Shape, Idle

LEMMA WholeStep ==
  ASSUME IInv, WInv, NEW g \in Goroutines, HandlerStep(g)
  PROVE  WInv'
  <1> DEFINE c == h[g].client
  <1> USE DEF SameStore, SameTime, Works
  <1>1. /\ h \in [Goroutines -> HandlerState] /\ leases \in [Clients -> Lease]
        /\ madeFor \in [Clients -> SUBSET Families]
        /\ c \in Clients /\ Shape(h[g])
    BY StepFrame DEF IInv, Core, Types, StoreTypeOK, Serving, WInv
  <1>2. SUFFICES /\ Shape(h'[g])
                 /\ leases'[c] # NoLease => Whole(leases'[c].ips, madeFor'[c])
    BY StepFrame DEF WInv
  <1>3. ASSUME UNCHANGED <<leases, madeFor>>
        PROVE  leases'[c] # NoLease => Whole(leases'[c].ips, madeFor'[c])
    BY <1>1, <1>3 DEF WInv
  <1>4. CASE Lookup(g)
    <2>1. UNCHANGED <<leases, madeFor>> /\ Shape(h'[g])
      BY <1>1, <1>4 DEF Lookup, Shape, WInv, Goto, At, HandlerState
    <2> QED
      BY <1>3, <2>1
  <1>5. CASE Decide(g) \/ RenewLease(g)
    <2>1. UNCHANGED <<leases, madeFor>> /\ Shape(h'[g])
      BY <1>1, <1>5 DEF Decide, RenewLease, Shape, Goto, At, HandlerState
    <2> QED
      BY <1>3, <2>1
  <1>6. CASE NewLease(g)
    <2>1. /\ h'[g].pc = "alloc" /\ h'[g].ips = {} /\ h'[g].req = h[g].req
          /\ h'[g].fams = WantedFamilies(h[g].req)
          /\ UNCHANGED <<leases, madeFor>>
      BY <1>1, <1>6 DEF NewLease, StartsNewLease, Shape, At, HandlerState
    <2>2. SubnetsFor(WantedFamilies(h[g].req)) = Visited(h[g].req)
      BY DEF SubnetsFor, Visited
    <2>3. Shape(h'[g])
      BY <2>1, <2>2 DEF Shape, SubnetsOf, OneEach
    <2> QED
      BY <1>3, <2>1, <2>3
  <1>7. CASE Allocate(g)
    <2>1. PICK s \in FirstSubnet(Remaining(g)) : \E a \in AddrsOf(s) :
            h' = [h EXCEPT ![g].ips = @ \cup {a}]
      BY <1>7 DEF Allocate
    <2>2. PICK a \in AddrsOf(s) : h' = [h EXCEPT ![g].ips = @ \cup {a}]
      BY <2>1
    <2>3. /\ h'[g].pc = "alloc" /\ h'[g].ips = h[g].ips \cup {a}
          /\ h'[g].req = h[g].req /\ h'[g].fams = h[g].fams
          /\ UNCHANGED <<leases, madeFor>>
      BY <1>1, <1>7, <2>2 DEF Allocate, AllocateIP, At, HandlerState
    <2>4. /\ s \in Visited(h[g].req) /\ s \notin SubnetsOf(h[g].ips)
          /\ SubnetOf[a] = s
      BY DEF FirstSubnet, Remaining, AddrsOf, SubnetsOf
    <2>5. /\ SubnetsFor(h[g].fams) = Visited(h[g].req)
          /\ SubnetsOf(h[g].ips) \subseteq Visited(h[g].req) /\ OneEach(h[g].ips)
      BY <1>1, <1>7 DEF Shape, Allocate, At
    <2>6. SubnetsOf(h'[g].ips) \subseteq Visited(h[g].req) /\ OneEach(h'[g].ips)
      BY <2>3, <2>4, <2>5 DEF SubnetsOf, OneEach
    <2>7. Shape(h'[g])
      BY <2>3, <2>5, <2>6 DEF Shape
    <2> QED
      BY <1>3, <2>3, <2>7
  <1>8. CASE StampLease(g)
    <2>1. /\ h'[g].pc = "save" /\ h'[g].ips = h[g].ips /\ h'[g].fams = h[g].fams
          /\ h[g].ips # {} /\ UNCHANGED <<leases, madeFor>>
      BY <1>1, <1>8 DEF StampLease, At, HandlerState
    <2>2. SubnetsOf(h[g].ips) = SubnetsFor(h[g].fams) /\ OneEach(h[g].ips)
      BY <1>1, <1>8 DEF Shape, StampLease, At, Remaining, SubnetsOf
    <2>3. Shape(h'[g])
      BY <2>1, <2>2 DEF Shape, Whole
    <2> QED
      BY <1>3, <2>1, <2>3
  <1>9. CASE Save(g)
    <2>1. h'[g] = Idle
      BY <1>1, <1>9 DEF Save, Return
    <2>2. \/ UNCHANGED <<leases, madeFor>>
          \/ leases'[c].ips = h[g].ips /\ madeFor'[c] = h[g].fams
      BY <1>1, <1>9 DEF Save, SaveLease, Fails
    <2>3. Whole(h[g].ips, h[g].fams)
      BY <1>1, <1>9 DEF Shape, Save, At
    <2> QED
      BY <1>3, <2>1, <2>2, <2>3, IdleShape
  <1>10. CASE DeleteExpired(g)
    <2>1. h'[g].pc = "free"
      BY <1>1, <1>10 DEF DeleteExpired, Goto
    <2>2. UNCHANGED <<leases, madeFor>> \/ leases'[c] = NoLease
      BY <1>1, <1>10 DEF DeleteExpired, DeleteLease, Fails
    <2>3. Shape(h'[g])
      BY <2>1 DEF Shape
    <2> QED
      BY <1>3, <2>2, <2>3
  <1>11. CASE FreeExpired(g) \/ OutOfAddresses(g) \/ AllocateFails(g) \/ Rollback(g)
    <2>1. h'[g] = Idle \/ h'[g].pc \in {"free", "rollback"}
      BY <1>1, <1>11 DEF FreeExpired, OutOfAddresses, AllocateFails, Rollback,
                         Goto, Return, At, HandlerState
    <2>2. UNCHANGED <<leases, madeFor>>
      BY <1>11 DEF FreeExpired, OutOfAddresses, AllocateFails, Rollback, FreeIP, Fails
    <2>3. Shape(h'[g])
      BY <2>1, IdleShape DEF Shape
    <2> QED
      BY <1>3, <2>2, <2>3
  <1>12. CASE \/ LookupFails(g) \/ RefuseRenewal(g) \/ RefuseNew(g)
              \/ NothingAllocated(g) \/ RolledBack(g)
    <2>1. h'[g] = Idle /\ UNCHANGED <<leases, madeFor>>
      BY <1>1, <1>12 DEF LookupFails, RefuseRenewal, RefuseNew, NothingAllocated,
                         RolledBack, Return, Fails
    <2> QED
      BY <1>3, <2>1, IdleShape
  <1> QED
    BY <1>4, <1>5, <1>6, <1>7, <1>8, <1>9, <1>10, <1>11, <1>12 DEF HandlerStep

LEMMA NextWInv == ASSUME IInv, WInv, [Next]_vars PROVE WInv'
  <1>1. h \in [Goroutines -> HandlerState] /\ leases \in [Clients -> Lease]
    BY DEF IInv, Core, Types, StoreTypeOK
  <1>2. CASE \E g \in Goroutines : HandlerStep(g)
    BY <1>2, WholeStep
  <1>3. ASSUME NEW g \in Goroutines, RequestIP(g) PROVE WInv'
    <2>1. /\ h'[g].pc = "lookup" /\ h'[g].ips = {}
          /\ \A f \in Goroutines \ {g} : h'[f] = h[f]
          /\ UNCHANGED <<leases, madeFor>>
      BY <1>1, <1>3 DEF RequestIP, SameStore, Works, Idle
    <2>2. Shape(h'[g])
      BY <2>1 DEF Shape
    <2> QED
      BY <2>1, <2>2 DEF WInv
  <1>4. CASE Purge
    <2>1. /\ h' = h /\ madeFor' = madeFor
          /\ \A c \in Clients : leases'[c] \in {leases[c], NoLease}
      BY <1>1, <1>4 DEF Purge, PurgeLeases, SameStore
    <2> QED
      BY <2>1 DEF WInv
  <1>5. CASE Crash
    BY <1>5, IdleShape DEF Crash, WInv
  <1>6. CASE PurgeTick \/ Tick \/ UNCHANGED vars
    BY <1>6 DEF PurgeTick, Tick, vars, WInv
  <1> QED
    BY <1>2, <1>3, <1>4, <1>5, <1>6 DEF Next

\* For any clients, goroutines, addresses, subnets and requests, whatever
\* overlaps, fails or crashes: a saved lease has one address of each subnet of
\* the families its client wanted, and at least one (ipallocator.go:180-185).
THEOREM LeasesWhole == Spec => []WholeLease
  <1>1. Init => WInv
    BY IdleShape DEF Init, WInv
  <1>2. IInv /\ WInv => WholeLease
    BY WholeIsWhole DEF WInv, WholeLease, IInv, Core, Types, StoreTypeOK, Lease
  <1> QED
    BY <1>1, <1>2, InitIInv, NextIInv, NextWInv, PTL DEF Spec

-----------------------------------------------------------------------------
\* One request per client at a time.

Lone ==
  \A f, g \in Goroutines :
    h[f].client # None /\ h[f].client = h[g].client => f = g

\* How the lease l, made for the families F, of the client of a goroutine in
\* state s is related to what the goroutine knows of it, at time t and after n
\* faults.
Knows(s, l, F, t, n) ==
  /\ s.pc \in {"decide", "renew"} =>
       l = NoLease \/ (l.ips = s.ips /\ l.exp = s.exp /\ F = s.fams)
  /\ s.pc = "delete" => Expired(l, t) /\ l.ips \subseteq s.ips
  /\ s.pc \in {"free", "new", "alloc", "rollback"} =>
       Expired(l, t) /\ (n = 0 => l.ips = {})
  /\ s.pc = "save" =>
       \/ Expired(l, t) /\ (n = 0 => l.ips \subseteq s.ips)
       \/ l.ips = s.ips /\ l.exp <= s.exp /\ F = s.fams

Informed ==
  \A g \in Goroutines :
    ~At(g, "idle") =>
      Knows(h[g], leases[h[g].client], madeFor[h[g].client], now, faults)

\* The addresses of a goroutine that will save them or free them.
Kept(s) == IF s.pc \in {"free", "alloc", "rollback", "save"} THEN s.ips ELSE {}

\* Without a fault an allocated address is in a lease or in such hands.
NoOrphan ==
  faults = 0 =>
    \A a \in allocated :
      \/ \E c \in Clients : a \in leases[c].ips
      \/ \E g \in Goroutines : a \in Kept(h[g])

LInv == Lone /\ Informed /\ NoOrphan

LEMMA NoLeaseExpired ==
  ASSUME NEW t \in Nat PROVE NoLease \in Lease /\ Expired(NoLease, t) /\ NoLease.ips = {}
  BY DEF NoLease, Expired, Lease

\* A later time, more faults or the end of the lease are no news.
LEMMA KnowsOn ==
  ASSUME NEW s \in HandlerState, NEW l \in Lease, NEW t \in Nat, NEW n,
         NEW F, Knows(s, l, F, t, n),
         NEW k \in Lease, k = l \/ k = NoLease,
         NEW u \in Nat, t <= u, NEW m, m = 0 => n = 0
  PROVE  Knows(s, k, F, u, m)
  <1>1. l.exp \in Nat /\ s.exp \in Nat /\ LeaseDuration \in Nat
    BY HandlerAssumption DEF Lease, HandlerState
  <1>2. CASE k = l
    BY <1>1, <1>2 DEF Knows, Expired
  <1>3. CASE k = NoLease
    <2>1. Expired(k, u) /\ k.ips = {}
      BY <1>3, NoLeaseExpired
    <2> QED
      BY <1>1, <1>3, <2>1 DEF Knows
  <1> QED
    BY <1>2, <1>3

\* What a step of one goroutine has to keep.
LEMMA OneGoroutine ==
  ASSUME IInv, IInv', LInv, NEW g \in Goroutines, HandlerStep(g),
         NEW c, c = h[g].client,
         h'[g] = Idle \/ Knows(h'[g], leases'[c], madeFor'[c], now, faults'),
         faults' = 0 =>
           \A a \in allocated' :
             \/ a \in leases'[c].ips \/ a \in Kept(h'[g])
             \/ a \in allocated /\ a \notin leases[c].ips /\ a \notin Kept(h[g])
  PROVE  LInv'
  <1>1. /\ c \in Clients /\ c # None /\ ~At(g, "idle")
        /\ now' = now /\ purgeT' = purgeT /\ tick' = tick
        /\ faults' = 0 => faults = 0
    BY StepFrame, HandlerAssumption DEF IInv, Core, Serving
  <1>2. \A f \in Goroutines \ {g} : h'[f] = h[f]
    BY StepFrame
  <1>3. \A d \in Clients \ {c} : leases'[d] = leases[d] /\ madeFor'[d] = madeFor[d]
    BY StepFrame
  <1>4. h'[g] = Idle \/ h'[g].client = c
    BY StepFrame
  <1>5. Lone'
    BY <1>1, <1>2, <1>4 DEF LInv, Lone, Idle
  <1>6. ASSUME NEW f \in Goroutines, h'[f].pc # "idle"
        PROVE  Knows(h'[f], leases'[h'[f].client], madeFor'[h'[f].client], now', faults')
    <2>1. CASE f = g
      BY <1>1, <1>4, <1>6, <2>1 DEF Idle
    <2>2. CASE f # g
      <3>1. h'[f] = h[f]
        BY <1>2, <2>2
      <3>2. h[f].client \in Clients /\ h[f].client # None /\ h[f] \in HandlerState
        BY <1>6, <3>1, HandlerAssumption DEF IInv, Core, Types, Serving, At
      <3>3. h[f].client # c
        BY <2>2, <3>2 DEF LInv, Lone
      <3>4. /\ leases'[h[f].client] = leases[h[f].client]
            /\ madeFor'[h[f].client] = madeFor[h[f].client]
        BY <1>3, <3>2, <3>3
      <3>5. Knows(h[f], leases[h[f].client], madeFor[h[f].client], now, faults)
        BY <1>6, <3>1 DEF LInv, Informed, At
      <3>6. leases[h[f].client] \in Lease /\ now \in Nat
        BY <3>2 DEF IInv, Core, Types, StoreTypeOK
      <3> QED
        BY <1>1, <3>1, <3>2, <3>4, <3>5, <3>6, KnowsOn
    <2> QED
      BY <2>1, <2>2
  <1>7. Informed'
    BY <1>6 DEF Informed, At
  <1>8. NoOrphan'
    <2> SUFFICES ASSUME faults' = 0, NEW a \in allocated'
                 PROVE  \/ \E d \in Clients : a \in leases'[d].ips
                        \/ \E f \in Goroutines : a \in Kept(h'[f])
      BY DEF NoOrphan, Kept
    <2>1. CASE a \in leases'[c].ips \/ a \in Kept(h'[g])
      BY <1>1, <2>1
    <2>2. CASE a \in allocated /\ a \notin leases[c].ips /\ a \notin Kept(h[g])
      <3>1. \/ \E d \in Clients : a \in leases[d].ips
            \/ \E f \in Goroutines : a \in Kept(h[f])
        BY <1>1, <2>2 DEF LInv, NoOrphan
      <3>2. CASE \E d \in Clients : a \in leases[d].ips
        <4>1. PICK d \in Clients : a \in leases[d].ips
          BY <3>2
        <4>2. leases'[d] = leases[d]
          BY <1>3, <2>2, <4>1
        <4> QED
          BY <4>1, <4>2
      <3>3. CASE \E f \in Goroutines : a \in Kept(h[f])
        <4>1. PICK f \in Goroutines : a \in Kept(h[f])
          BY <3>3
        <4>2. h'[f] = h[f]
          BY <1>2, <2>2, <4>1
        <4> QED
          BY <4>1, <4>2
      <3> QED
        BY <3>1, <3>2, <3>3
    <2> QED
      BY <2>1, <2>2
  <1> QED
    BY <1>5, <1>7, <1>8 DEF LInv

\* A step that leaves the store alone.
LEMMA OnlyItself ==
  ASSUME IInv, IInv', LInv, NEW g \in Goroutines, HandlerStep(g),
         SameStore, madeFor' = madeFor,
         NEW c, c = h[g].client,
         h'[g] = Idle \/ Knows(h'[g], leases[c], madeFor[c], now, faults'),
         faults' = 0 => \A a \in Kept(h[g]) : a \in leases[c].ips \/ a \in Kept(h'[g])
  PROVE  LInv'
  <1>1. leases' = leases /\ allocated' = allocated
    BY DEF SameStore
  <1> QED
    BY <1>1, OneGoroutine

LEMMA HandlerLInv ==
  ASSUME IInv, IInv', LInv, NEW g \in Goroutines, HandlerStep(g)
  PROVE  LInv'
  <1> DEFINE c == h[g].client
  <1> DEFINE l == leases[c]
  <1> DEFINE F == madeFor[c]
  <1> USE DEF SameStore, SameTime, Works
  <1>1. /\ h \in [Goroutines -> HandlerState] /\ leases \in [Clients -> Lease]
        /\ h[g] \in HandlerState /\ l \in Lease
        /\ now \in Nat /\ faults \in Nat /\ allocated \subseteq Addrs
        /\ madeFor \in [Clients -> SUBSET Families]
    BY StepFrame DEF IInv, Core, Types, StoreTypeOK, Serving
  <1>2. /\ h[g].ips \subseteq Addrs /\ h[g].exp \in Nat /\ l.exp \in Nat
        /\ LeaseDuration \in Nat \ {0}
    BY <1>1, HandlerAssumption DEF HandlerState, Lease
  <1>3. Knows(h[g], l, F, now, faults) /\ c \in Clients
    BY StepFrame DEF LInv, Informed, IInv, Core, Serving
  <1>4. l.exp <= now + LeaseDuration
    BY <1>3 DEF IInv, Bounded
  <1>5. faults' = 0 => faults = 0
    BY StepFrame
  <1>6. CASE Lookup(g)
    <2>1. /\ h[g].pc = "lookup" /\ leases' = leases /\ madeFor' = madeFor /\ allocated' = allocated
          /\ faults' = faults
          /\ \/ l = NoLease /\ h'[g].pc = "new"
             \/ /\ h'[g].pc = "decide" /\ h'[g].ips = l.ips /\ h'[g].exp = l.exp
                /\ h'[g].fams = F
      BY <1>1, <1>6 DEF Lookup, Goto, At, HandlerState
    <2>2. Knows(h'[g], l, F, now, faults)
      BY <1>1, <2>1, NoLeaseExpired DEF Knows
    <2> QED
      BY <2>1, <2>2, OnlyItself DEF Kept
  <1>7. CASE Decide(g)
    <2>1. /\ h[g].pc = "decide" /\ leases' = leases /\ madeFor' = madeFor /\ allocated' = allocated
          /\ faults' = faults /\ h'[g].ips = h[g].ips /\ h'[g].exp = h[g].exp
          /\ h'[g].fams = h[g].fams
          /\ IF Expired(h[g], now) THEN h'[g].pc = "delete" ELSE h'[g].pc = "renew"
      BY <1>1, <1>7 DEF Decide, Goto, At, HandlerState
    <2>2. l = NoLease => Expired(l, now) /\ l.ips = {}
      BY <1>1, NoLeaseExpired
    <2>3. Knows(h'[g], l, F, now, faults)
      BY <1>3, <2>1, <2>2 DEF Knows, Expired
    <2> QED
      BY <2>1, <2>3, OnlyItself DEF Kept
  <1>8. CASE RenewLease(g)
    <2>1. /\ h[g].pc = "renew" /\ leases' = leases /\ madeFor' = madeFor /\ allocated' = allocated
          /\ faults' = faults /\ h'[g].ips = h[g].ips /\ h'[g].fams = h[g].fams
          /\ h'[g].exp = now + LeaseDuration /\ h'[g].pc = "save"
      BY <1>1, <1>8 DEF RenewLease, At, HandlerState
    <2>2. l = NoLease => Expired(l, now) /\ l.ips = {}
      BY <1>1, NoLeaseExpired
    <2>3. Knows(h'[g], l, F, now, faults)
      BY <1>1, <1>2, <1>3, <1>4, <2>1, <2>2 DEF Knows
    <2> QED
      BY <2>1, <2>3, OnlyItself DEF Kept
  <1>9. CASE NewLease(g)
    <2>1. /\ h[g].pc = "new" \/ (h[g].pc = "free" /\ h[g].ips = {})
          /\ leases' = leases /\ madeFor' = madeFor /\ allocated' = allocated /\ faults' = faults
          /\ h'[g].ips = h[g].ips /\ h'[g].pc = "alloc"
      BY <1>1, <1>9 DEF NewLease, StartsNewLease, At, HandlerState
    <2>2. Knows(h'[g], l, F, now, faults)
      BY <1>3, <2>1 DEF Knows
    <2> QED
      BY <2>1, <2>2, OnlyItself DEF Kept
  <1>10. CASE StampLease(g)
    <2>1. /\ h[g].pc = "alloc" /\ leases' = leases /\ madeFor' = madeFor /\ allocated' = allocated
          /\ faults' = faults /\ h'[g].ips = h[g].ips
          /\ h'[g].exp = now + LeaseDuration /\ h'[g].pc = "save"
      BY <1>1, <1>10 DEF StampLease, At, HandlerState
    <2>2. Knows(h'[g], l, F, now, faults)
      BY <1>1, <1>2, <1>3, <2>1 DEF Knows
    <2> QED
      BY <2>1, <2>2, OnlyItself DEF Kept
  <1>11. CASE OutOfAddresses(g) \/ AllocateFails(g)
    <2>1. /\ h[g].pc = "alloc" /\ leases' = leases /\ madeFor' = madeFor /\ allocated' = allocated
          /\ h'[g].ips = h[g].ips /\ h'[g].pc = "rollback"
      BY <1>1, <1>11 DEF OutOfAddresses, AllocateFails, Fails, Goto, At, HandlerState
    <2>2. Knows(h'[g], l, F, now, faults')
      BY <1>3, <1>5, <2>1 DEF Knows
    <2> QED
      BY <2>1, <2>2, OnlyItself DEF Kept
  <1>12. CASE \/ LookupFails(g) \/ RefuseRenewal(g) \/ RefuseNew(g)
              \/ NothingAllocated(g) \/ RolledBack(g)
    <2>1. leases' = leases /\ madeFor' = madeFor /\ allocated' = allocated /\ h'[g] = Idle
      BY <1>1, <1>12 DEF LookupFails, RefuseRenewal, RefuseNew,
         NothingAllocated, RolledBack, Return, Fails
    <2>2. h[g].pc \in {"lookup", "renew", "new"} \/ h[g].ips = {}
      BY <1>12 DEF LookupFails, RefuseRenewal, RefuseNew, StartsNewLease,
         NothingAllocated, RolledBack, At
    <2> QED
      BY <2>1, <2>2, OnlyItself DEF Kept
  <1>13. CASE DeleteExpired(g)
    <2>1. /\ h[g].pc = "delete" /\ h'[g].ips = h[g].ips /\ h'[g].pc = "free"
          /\ allocated' = allocated /\ madeFor' = madeFor
          /\ leases'[c] = NoLease \/ (leases'[c] = l /\ faults' # 0)
      BY <1>1, <1>3, <1>13
      DEF DeleteExpired, DeleteLease, Fails, Fault, Goto, At, HandlerState
    <2>2. leases'[c] \in Lease /\ Expired(leases'[c], now)
          /\ (faults' = 0 => leases'[c].ips = {})
      BY <1>1, <1>3, <2>1, NoLeaseExpired DEF Knows
    <2>3. Knows(h'[g], leases'[c], F, now, faults')
      BY <2>1, <2>2 DEF Knows
    <2>4. l.ips \subseteq Kept(h'[g])
      BY <1>3, <2>1 DEF Knows, Kept
    <2> QED
      BY <2>1, <2>3, <2>4, OneGoroutine DEF Kept
  <1>14. CASE FreeExpired(g) \/ Rollback(g)
    <2>1. h[g].pc \in {"free", "rollback"}
      BY <1>14 DEF FreeExpired, Rollback, At
    <2>2. PICK a \in h[g].ips :
            /\ h' = [h EXCEPT ![g].ips = @ \ {a}] \/ h'[g] = Idle
            /\ \/ Fails
               \/ /\ FreeIP(a) /\ madeFor' = madeFor
                  /\ h' = [h EXCEPT ![g].ips = @ \ {a}]
      BY <1>1, <1>14 DEF FreeExpired, Rollback, FirstIP, Return
    <2>3. /\ leases' = leases /\ madeFor' = madeFor
          /\ h'[g] = Idle \/ (h'[g].pc = h[g].pc /\ h'[g].ips = h[g].ips \ {a})
          /\ \/ faults' # 0
             \/ allocated' = allocated \ {a} /\ h'[g].pc = h[g].pc
                  /\ h'[g].ips = h[g].ips \ {a}
      BY <1>1, <2>2 DEF FreeIP, Fails, Fault, HandlerState
    <2>4. h'[g] = Idle \/ Knows(h'[g], l, F, now, faults')
      BY <1>3, <1>5, <2>1, <2>3 DEF Knows
    <2> QED
      BY <2>1, <2>3, <2>4, OneGoroutine DEF Kept
  <1>15. CASE Allocate(g)
    <2>1. PICK a : AllocateIP(a) /\ h' = [h EXCEPT ![g].ips = @ \cup {a}]
      BY <1>15 DEF Allocate
    <2>2. /\ h[g].pc = "alloc" /\ h'[g].pc = "alloc" /\ leases' = leases
          /\ madeFor' = madeFor
          /\ h'[g].ips = h[g].ips \cup {a} /\ allocated' = allocated \cup {a}
          /\ faults' = faults
      BY <1>1, <1>15, <2>1 DEF Allocate, AllocateIP, At, HandlerState
    <2>3. Knows(h'[g], l, F, now, faults')
      BY <1>3, <2>2 DEF Knows
    <2> QED
      BY <2>2, <2>3, OneGoroutine DEF Kept
  <1>16. CASE Save(g)
    <2>1. /\ h[g].pc = "save" /\ h'[g] = Idle /\ allocated' = allocated
          /\ \/ leases'[c].ips = h[g].ips /\ leases'[c].exp = h[g].exp
             \/ leases'[c] = l /\ faults' # 0
      BY <1>1, <1>3, <1>16 DEF Save, SaveLease, Fails, Fault, Return, At
    <2>2. faults' = 0 => Kept(h[g]) \subseteq leases'[c].ips /\ l.ips \subseteq leases'[c].ips
      BY <1>3, <1>5, <2>1 DEF Knows, Kept
    <2> QED
      BY <2>1, <2>2, OneGoroutine
  <1> QED
    BY <1>6, <1>7, <1>8, <1>9, <1>10, <1>11, <1>12, <1>13, <1>14, <1>15, <1>16
    DEF HandlerStep

LEMMA PurgeLInv == ASSUME IInv, IInv', LInv, Purge PROVE LInv'
  <1>1. /\ h' = h /\ now' = now /\ madeFor' = madeFor
        /\ faults' = 0 => faults = 0
    BY DEF Purge, Fault, IInv, Core, Types
  <1>2. \A c \in Clients : leases[c] \in Lease /\ leases'[c] \in Lease
    BY DEF IInv, Core, Types, StoreTypeOK
  <1>3. \A c \in Clients : leases'[c] = leases[c] \/ leases'[c] = NoLease
    BY DEF Purge, PurgeLeases, SameStore
  <1>4. Lone'
    BY <1>1 DEF LInv, Lone
  <1>5. ASSUME NEW g \in Goroutines, h[g].pc # "idle"
        PROVE  Knows(h[g], leases'[h[g].client], madeFor[h[g].client], now, faults')
    <2>1. h[g].client \in Clients /\ h[g] \in HandlerState /\ now \in Nat
      BY <1>5 DEF IInv, Core, Types, Serving, At
    <2>2. Knows(h[g], leases[h[g].client], madeFor[h[g].client], now, faults)
      BY <1>5 DEF LInv, Informed, At
    <2> QED
      BY <1>1, <1>2, <1>3, <2>1, <2>2, KnowsOn
  <1>6. Informed'
    BY <1>1, <1>5 DEF Informed, At
  <1>7. NoOrphan'
    <2> SUFFICES ASSUME faults' = 0, NEW a \in allocated',
                        ~(\E g \in Goroutines : a \in Kept(h[g]))
                 PROVE  \E c \in Clients : a \in leases'[c].ips
      BY <1>1 DEF NoOrphan, Kept
    <2>1. PurgeLeases(purgeT)
      BY DEF Purge, Fault, IInv, Core, Types
    <2>2. a \in allocated /\ a \notin ExpiredIPs(purgeT)
      BY <2>1 DEF PurgeLeases
    <2>3. PICK c \in Clients : a \in leases[c].ips
      BY <1>1, <2>2 DEF LInv, NoOrphan
    <2>4. c \notin ExpiredClients(purgeT)
      BY <2>2, <2>3 DEF ExpiredIPs
    <2> QED
      BY <2>1, <2>3, <2>4 DEF PurgeLeases
  <1> QED
    BY <1>4, <1>6, <1>7 DEF LInv

LEMMA NextLInv ==
  ASSUME ~Overlap, IInv, IInv', LInv, [Next]_vars PROVE LInv'
  <1>1. CASE \E g \in Goroutines : HandlerStep(g)
    BY <1>1, HandlerLInv
  <1>2. ASSUME NEW g \in Goroutines, RequestIP(g) PROVE LInv'
    <2>1. PICK c \in Clients, r \in Requests :
            /\ \A f \in Goroutines : h[f].client # c
            /\ h' = [h EXCEPT ![g] = [Idle EXCEPT !.pc = "lookup", !.client = c, !.req = r]]
      BY <1>2 DEF RequestIP
    <2>2. /\ \A f \in Goroutines \ {g} : h'[f] = h[f]
          /\ h'[g].pc = "lookup" /\ h'[g].client = c
          /\ leases' = leases /\ allocated' = allocated /\ now' = now
          /\ madeFor' = madeFor /\ faults' = faults
      BY <1>2, <2>1 DEF RequestIP, SameStore, Works, SameTime, Idle, IInv, Core, Types
    <2>3. Kept(h[g]) = {}
      BY <1>2 DEF RequestIP, At, Kept
    <2>4. Lone'
      BY <2>1, <2>2 DEF LInv, Lone
    <2>5. Informed'
      BY <2>2 DEF LInv, Informed, Knows, At
    <2>6. NoOrphan'
      BY <2>2, <2>3 DEF LInv, NoOrphan
    <2> QED
      BY <2>4, <2>5, <2>6 DEF LInv
  <1>3. CASE Purge
    BY <1>3, PurgeLInv
  <1>4. CASE Crash
    <2>1. faults' # 0
          /\ h' = [g \in Goroutines |-> Idle]
      BY <1>4 DEF Crash, Fault, IInv, Core, Types
    <2> QED
      BY <2>1 DEF LInv, Lone, Informed, NoOrphan, At, Idle
  <1>5. CASE PurgeTick \/ Tick \/ UNCHANGED vars
    <2>1. /\ h' = h /\ leases' = leases /\ allocated' = allocated /\ faults' = faults
          /\ madeFor' = madeFor /\ now \in Nat /\ now' \in Nat /\ now <= now'
      BY <1>5 DEF PurgeTick, Tick, vars, IInv, Core, Types
    <2>2. Lone' /\ NoOrphan'
      BY <2>1 DEF LInv, Lone, NoOrphan
    <2>3. ASSUME NEW g \in Goroutines, h[g].pc # "idle"
          PROVE  Knows(h[g], leases[h[g].client], madeFor[h[g].client], now', faults)
      <3>1. h[g].client \in Clients /\ h[g] \in HandlerState
        BY <2>3 DEF IInv, Core, Types, Serving, At
      <3>2. Knows(h[g], leases[h[g].client], madeFor[h[g].client], now, faults)
        BY <2>3 DEF LInv, Informed, At
      <3>3. leases[h[g].client] \in Lease
        BY <3>1 DEF IInv, Core, Types, StoreTypeOK
      <3> QED
        BY <2>1, <3>1, <3>2, <3>3, KnowsOn
    <2>4. Informed'
      BY <2>1, <2>3 DEF Informed, At
    <2> QED
      BY <2>2, <2>4 DEF LInv
  <1> QED
    BY <1>1, <1>2, <1>3, <1>4, <1>5 DEF Next

-----------------------------------------------------------------------------
\* What follows.

\* The steps that change a lease: the deletion of an expired one, a save, and
\* a purge.
LEMMA UnexpiredStays ==
  ASSUME IInv, LInv, Next, NEW c \in Clients,
         leases[c] # NoLease, ~Expired(leases[c], now)
  PROVE  leases'[c].ips = leases[c].ips /\ leases'[c].exp >= leases[c].exp
  <1>1. /\ leases \in [Clients -> Lease] /\ leases[c].exp \in Nat /\ now \in Nat
        /\ purgeT \in Nat \cup {None}
    BY DEF IInv, Core, Types, StoreTypeOK, Lease
  <1>2. CASE leases'[c] = leases[c]
    BY <1>1, <1>2
  <1>3. ASSUME NEW g \in Goroutines, HandlerStep(g), c = h[g].client
        PROVE  leases'[c] = leases[c] \/
                 (leases'[c].ips = leases[c].ips /\ leases'[c].exp >= leases[c].exp)
    <2> USE DEF SameStore, Works
    <2>1. Knows(h[g], leases[c], madeFor[c], now, faults) /\ h[g].exp \in Nat
      BY <1>3, StepFrame DEF LInv, Informed, IInv, Core, Types, HandlerState
    <2>2. CASE DeleteExpired(g)
      BY <2>1, <2>2 DEF DeleteExpired, At, Knows
    <2>3. CASE Save(g)
      <3>1. h[g].pc = "save" /\ (leases' = leases \/
              leases' = [leases EXCEPT ![c] = [ips |-> h[g].ips, exp |-> h[g].exp]])
        BY <1>3, <2>3 DEF Save, SaveLease, Fails, At
      <3>2. leases[c].ips = h[g].ips /\ leases[c].exp <= h[g].exp
        BY <2>1, <3>1 DEF Knows
      <3> QED
        BY <1>1, <2>1, <3>1, <3>2
    <2>4. CASE ~DeleteExpired(g) /\ ~Save(g)
      <3>1. leases' = leases
        BY <1>3, <2>4
        DEF HandlerStep, Lookup, LookupFails, Decide, RenewLease, RefuseRenewal,
            FreeExpired, NewLease, RefuseNew, Allocate, OutOfAddresses,
            AllocateFails, StampLease, NothingAllocated, Rollback, RolledBack,
            FreeIP, AllocateIP, Fails
      <3> QED
        BY <3>1
    <2> QED
      BY <2>2, <2>3, <2>4
  <1>4. CASE \E g \in Goroutines : HandlerStep(g)
    BY <1>2, <1>3, <1>4, StepFrame
  <1>5. CASE Purge
    <2>1. purgeT # None /\ purgeT <= now
      BY <1>5 DEF Purge, IInv, Bounded
    <2>2. c \notin ExpiredClients(purgeT)
      BY <1>1, <2>1, HandlerAssumption DEF ExpiredClients, Expired
    <2> QED
      BY <1>2, <1>5, <2>2 DEF Purge, PurgeLeases, SameStore
  <1>6. CASE (\E g \in Goroutines : RequestIP(g)) \/ PurgeTick \/ Tick \/ Crash
    BY <1>2, <1>6 DEF RequestIP, PurgeTick, Tick, Crash, SameStore
  <1> QED
    BY <1>4, <1>5, <1>6 DEF Next

\* The steps that free an address: cleaning up, rolling back and a purge; they
\* hold it, and not for the client of an unexpired lease.
LEMMA UnexpiredAllocated ==
  ASSUME IInv, LInv, Next, NEW c \in Clients, ~Expired(leases[c], now),
         NEW a \in (leases[c].ips \cap allocated) \ released
  PROVE  a \in allocated'
  <1>1. /\ leases \in [Clients -> Lease] /\ leases[c].exp \in Nat /\ now \in Nat
        /\ purgeT \in Nat \cup {None}
    BY DEF IInv, Core, Types, StoreTypeOK, Lease
  <1>2. \A d \in Clients \ {c} : a \notin Claims(d)
    BY ClaimsMembers DEF IInv, Core, Exclusive
  <1>3. ASSUME NEW g \in Goroutines, FreeExpired(g) \/ Rollback(g)
        PROVE  a \in allocated'
    <2>1. /\ h[g].pc \in {"free", "rollback"}
          /\ allocated' = allocated \/ \E b \in h[g].ips : allocated' = allocated \ {b}
      BY <1>3 DEF FreeExpired, Rollback, FirstIP, FreeIP, Fails, SameStore, At
    <2>2. h[g].client \in Clients
      BY <2>1 DEF IInv, Core, Serving, At
    <2>3. Expired(leases[h[g].client], now)
      BY <2>1 DEF LInv, Informed, Knows, At
    <2>4. a \notin h[g].ips
      BY <1>2, <2>2, <2>3, ClaimsMembers
    <2> QED
      BY <2>1, <2>4
  <1>4. CASE Purge
    <2>1. purgeT # None /\ purgeT <= now
      BY <1>4 DEF Purge, IInv, Bounded
    <2>2. ASSUME NEW d \in ExpiredClients(purgeT), a \in leases[d].ips PROVE FALSE
      <3>1. d = c
        BY <1>2, <2>2, ClaimsMembers DEF ExpiredClients
      <3> QED
        BY <1>1, <2>1, <2>2, <3>1, HandlerAssumption DEF ExpiredClients, Expired
    <2> QED
      BY <1>4, <2>2 DEF Purge, PurgeLeases, ExpiredIPs, SameStore
  <1>5. ASSUME NEW g \in Goroutines, HandlerStep(g), ~FreeExpired(g), ~Rollback(g)
        PROVE  a \in allocated'
    <2>1. allocated' = allocated \/ \E b : allocated' = allocated \cup {b}
      BY <1>5
      DEF HandlerStep, Lookup, LookupFails, Decide, RenewLease, RefuseRenewal,
          DeleteExpired, NewLease, RefuseNew, Allocate, OutOfAddresses,
          AllocateFails, StampLease, NothingAllocated, RolledBack, Save,
          SaveLease, DeleteLease, AllocateIP, Fails, SameStore, Works
    <2> QED
      BY <2>1
  <1>6. CASE (\E g \in Goroutines : RequestIP(g)) \/ PurgeTick \/ Tick \/ Crash
    BY <1>6 DEF RequestIP, PurgeTick, Tick, Crash, SameStore
  <1> QED
    BY <1>3, <1>4, <1>5, <1>6 DEF Next

\* The invariant with which clients take turns.
JInv == IInv /\ (~Overlap => LInv)

LEMMA InitJInv == Init => JInv
  <1> SUFFICES ASSUME Init PROVE JInv
    OBVIOUS
  <1> QED
    BY InitIInv DEF Init, JInv, LInv, Lone, Informed, NoOrphan, At, Idle

LEMMA NextJInv == JInv /\ [Next]_vars => JInv'
  BY NextIInv, NextLInv DEF JInv

\* For any clients, goroutines, addresses and subnets, with failing operations
\* and crashes: a client with one request at a time keeps the addresses of its
\* lease, and at least its time, until it expires (handler.go:113, 212).
THEOREM LeasesHonoured == Spec => LeaseHonoured
  <1>1. JInv /\ [Next]_vars =>
          [~Overlap =>
             \A c \in Clients :
               leases[c] # NoLease /\ ~Expired(leases[c], now) =>
                 /\ leases'[c].ips = leases[c].ips
                 /\ leases'[c].exp >= leases[c].exp]_vars
    BY UnexpiredStays DEF JInv
  <1> QED
    BY <1>1, InitJInv, NextJInv, PTL DEF Spec, LeaseHonoured

\* Nothing frees an address of an unexpired lease, unless a race has freed it
\* before (store.go:42-43).
THEOREM UnexpiredKeepAddresses == Spec => UnexpiredKept
  <1>1. JInv /\ [Next]_vars =>
          [~Overlap =>
             \A c \in Clients : ~Expired(leases[c], now) =>
               \A a \in (leases[c].ips \cap allocated) \ released :
                 a \in allocated']_vars
    BY UnexpiredAllocated DEF JInv
  <1> QED
    BY <1>1, InitJInv, NextJInv, PTL DEF Spec, UnexpiredKept

\* Without a fault every allocated address is held by someone who will free it
\* (ipallocator.go:145-147, handler.go:118).
THEOREM NothingLeaks == Spec => []NoLeak
  <1>1. JInv => NoLeak
    <2> SUFFICES ASSUME JInv, ~Overlap, faults = 0, NEW a \in allocated
                 PROVE  \E c \in Clients : a \in Claims(c)
      BY DEF NoLeak, Claimed
    <2>1. CASE \E c \in Clients : a \in leases[c].ips
      BY <2>1, ClaimsMembers
    <2>2. ASSUME NEW g \in Goroutines, a \in Kept(h[g])
          PROVE  \E c \in Clients : a \in Claims(c)
      <3>1. a \in h[g].ips /\ h[g].client \in Clients
        BY <2>2 DEF Kept, JInv, IInv, Core, Serving, At
      <3> QED
        BY <3>1, ClaimsMembers
    <2> QED
      BY <2>1, <2>2 DEF JInv, LInv, NoOrphan
  <1> QED
    BY <1>1, InitJInv, NextJInv, PTL DEF Spec

-----------------------------------------------------------------------------
\* The service.

\* The clients and addresses of LeaseService, in terms of the store.
LEMMA LapsedFacts ==
  /\ \A c \in Clients : c \in Leasing!Lapsed <=> Expired(leases[c], now)
  /\ \A c \in Clients : Expired(leases[c], now) => leases[c].ips \subseteq Leasing!LapsedIPs
  BY DEF Leasing!Lapsed, Leasing!LapsedIPs, Leasing!Expired, Expired

LEMMA ForgetStep ==
  ASSUME IInv, NEW C \in SUBSET Clients, \A c \in C : Expired(leases[c], now),
         leases' = [c \in Clients |-> IF c \in C THEN NoLease ELSE leases[c]],
         NEW A \in SUBSET Leasing!LapsedIPs, released' = released \cup A, now' = now,
         madeFor' = madeFor
  PROVE  Leasing!Next
  <1>1. C \in SUBSET Leasing!Lapsed
    BY LapsedFacts
  <1>2. leases' = [c \in Clients |-> IF c \in C THEN Leasing!NoLease ELSE leases[c]]
    BY DEF NoLease, Leasing!NoLease
  <1> QED
    BY <1>1, <1>2 DEF Leasing!Next, Leasing!Forget

\* An address that goroutine g frees is contested only if the expired lease of
\* its client has it still.
LEMMA FreeingStep ==
  ASSUME IInv, LInv, LInv', NEW g \in Goroutines, HandlerStep(g),
         FreeExpired(g) \/ Rollback(g)
  PROVE  Leasing!Next \/ UNCHANGED <<leases, now, released, madeFor>>
  <1> DEFINE c == h[g].client
  <1>1. /\ h \in [Goroutines -> HandlerState] /\ leases \in [Clients -> Lease]
        /\ c \in Clients /\ c # None /\ h[g].pc \in {"free", "rollback"}
    BY HandlerAssumption
    DEF IInv, Core, Types, StoreTypeOK, Serving, FreeExpired, Rollback, At
  <1>2. Expired(leases[c], now)
    BY <1>1 DEF LInv, Informed, Knows, At
  <1>3. CASE Fails
    BY <1>3 DEF Fails, SameStore, SameTime
  <1>4. CASE ~Fails
    <2>1. PICK a \in h[g].ips :
            /\ h' = [h EXCEPT ![g].ips = @ \ {a}]
            /\ FreeIP(a) /\ Releases({a}) /\ SameTime /\ UNCHANGED madeFor
      BY <1>4 DEF FreeExpired, Rollback, FirstIP
    <2>2. /\ leases' = leases /\ now' = now /\ madeFor' = madeFor
          /\ h'[g].ips = h[g].ips \ {a} /\ h'[g].client = c
          /\ \A f \in Goroutines \ {g} : h'[f] = h[f]
      BY <1>1, <2>1 DEF FreeIP, SameTime, HandlerState
    <2> DEFINE A == ({a} \cap Claimed') \ released
    <2>3. released' = released \cup A
      BY <2>1 DEF Releases
    <2>4. ASSUME a \in Claimed', a \notin released PROVE a \in leases[c].ips
      <3>1. PICK d \in Clients : a \in Claims(d)'
        BY <2>4 DEF Claimed
      <3>2. a \in Claims(c)
        BY <1>1, ClaimsMembers
      <3>3. a \in Claims(d)
        BY <2>2, <3>1, ClaimsMembers, ClaimsMembersPrime
      <3>4. d = c
        BY <1>1, <2>4, <3>2, <3>3 DEF IInv, Core, Exclusive
      <3>5. \A f \in Goroutines : h'[f].client = c => f = g
        BY <1>1, <2>2 DEF LInv, Lone
      <3> QED
        BY <2>2, <3>1, <3>4, <3>5, ClaimsMembersPrime
    <2>5. A \in SUBSET Leasing!LapsedIPs
      BY <1>1, <1>2, <2>4, LapsedFacts
    <2>6. leases' = [d \in Clients |-> IF d \in {} THEN NoLease ELSE leases[d]]
      BY <1>1, <2>2
    <2>7. {} \in SUBSET Clients /\ \A d \in {} : Expired(leases[d], now)
      OBVIOUS
    <2> HIDE DEF A, c
    <2>8. Leasing!Next
      BY <2>2, <2>3, <2>5, <2>6, <2>7, ForgetStep
    <2> QED
      BY <2>8
  <1> QED
    BY <1>3, <1>4

\* What is saved is a lease granted or prolonged.
LEMMA SavingStep ==
  ASSUME IInv, WInv, LInv, NEW g \in Goroutines, Save(g)
  PROVE  Leasing!Next \/ UNCHANGED <<leases, now, released, madeFor>>
  <1> DEFINE c == h[g].client
  <1> DEFINE s == h[g]
  <1>1. /\ s \in HandlerState /\ leases \in [Clients -> Lease] /\ now \in Nat
        /\ madeFor \in [Clients -> SUBSET Families]
        /\ c \in Clients /\ s.pc = "save" /\ s.exp \in Nat /\ s.ips \in SUBSET Addrs
        /\ leases[c].exp \in Nat /\ LeaseDuration \in Nat
    BY HandlerAssumption
    DEF IInv, Core, Types, StoreTypeOK, Serving, Save, At, HandlerState, Lease
  <1>2. Knows(s, leases[c], madeFor[c], now, faults)
    BY <1>1 DEF LInv, Informed, At
  <1>3. s.fams \in DOMAIN WholeLeases /\ s.ips \in WholeLeases[s.fams]
    <2>1. s.fams \in SUBSET Families /\ Whole(s.ips, s.fams)
      BY <1>1 DEF HandlerState, WInv, Shape
    <2>2. DOMAIN WholeLeases = SUBSET Families
      BY DEF WholeLeases
    <2> QED
      BY <1>1, <2>1, <2>2, WholeIsWhole
  <1>4. CASE Fails
    BY <1>4 DEF Fails, SameStore, SameTime
  <1>5. CASE ~Fails
    <2>1. /\ leases' = [leases EXCEPT ![c] = [ips |-> s.ips, exp |-> s.exp]]
          /\ madeFor' = [madeFor EXCEPT ![c] = s.fams]
          /\ now' = now /\ released' = released
      BY <1>5 DEF Save, SaveLease, Works, SameTime
    <2>2. s.exp \in 0 .. now + LeaseDuration
      BY <1>1 DEF IInv, Bounded
    <2>3. CASE Expired(leases[c], now)
      <3>1. c \in Leasing!Lapsed
        BY <1>1, <2>3, LapsedFacts
      <3>2. \A d \in Clients \ {c} : s.ips \cap leases[d].ips \subseteq released
        BY <1>1, ClaimsMembers DEF IInv, Core, Exclusive
      <3>3. Leasing!Grant(c)
        BY <1>3, <2>1, <2>2, <3>1, <3>2 DEF Leasing!Grant
      <3> QED
        BY <1>1, <3>3 DEF Leasing!Next
    <2>4. CASE ~Expired(leases[c], now)
      <3>1. c \notin Leasing!Lapsed
        BY <1>1, <2>4, LapsedFacts
      <3>2. /\ leases[c].ips = s.ips /\ s.exp \in leases[c].exp .. now + LeaseDuration
            /\ madeFor[c] = s.fams
        BY <1>1, <1>2, <2>2, <2>4 DEF Knows
      <3>3. leases' = [leases EXCEPT ![c].exp = s.exp]
        BY <1>1, <2>1, <3>2 DEF Lease
      <3>4. madeFor' = madeFor
        BY <1>1, <2>1, <3>2
      <3>5. Leasing!Renew(c)
        BY <2>1, <3>1, <3>2, <3>3, <3>4 DEF Leasing!Renew
      <3> QED
        BY <1>1, <3>5 DEF Leasing!Next
    <2> QED
      BY <2>3, <2>4
  <1> QED
    BY <1>4, <1>5

LEMMA LeasingHandlerStep ==
  ASSUME IInv, WInv, LInv, LInv', NEW g \in Goroutines, HandlerStep(g)
  PROVE  Leasing!Next \/ UNCHANGED <<leases, now, released, madeFor>>
  <1> USE DEF SameStore, Works
  <1>1. CASE DeleteExpired(g)
    <2> DEFINE c == h[g].client
    <2>1. leases \in [Clients -> Lease] /\ c \in Clients
      BY <1>1 DEF IInv, Core, Types, StoreTypeOK, Serving, DeleteExpired, At
    <2>2. Expired(leases[c], now)
      BY <1>1 DEF DeleteExpired, LInv, Informed, Knows, At
    <2>3. CASE Fails
      BY <2>3 DEF Fails, SameTime
    <2>4. CASE ~Fails
      <3>1. /\ leases' = [leases EXCEPT ![c] = NoLease] /\ now' = now
            /\ released' = released /\ madeFor' = madeFor
        BY <1>1, <2>4 DEF DeleteExpired, DeleteLease, SameTime
      <3>2. leases' = [d \in Clients |-> IF d \in {c} THEN NoLease ELSE leases[d]]
        BY <2>1, <3>1
      <3>3. released' = released \cup {} /\ {} \in SUBSET Leasing!LapsedIPs
        BY <3>1
      <3> QED
        BY <2>1, <2>2, <3>1, <3>2, <3>3, ForgetStep
    <2> QED
      BY <2>3, <2>4
  <1>2. CASE FreeExpired(g) \/ Rollback(g)
    BY <1>2, FreeingStep
  <1>3. CASE Save(g)
    BY <1>3, SavingStep
  <1>4. CASE ~DeleteExpired(g) /\ ~FreeExpired(g) /\ ~Rollback(g) /\ ~Save(g)
    <2>1. UNCHANGED <<leases, now, released, madeFor>>
      BY <1>4
      DEF HandlerStep, Lookup, LookupFails, Decide, RenewLease, RefuseRenewal,
          NewLease, RefuseNew, Allocate, OutOfAddresses, AllocateFails,
          StampLease, NothingAllocated, RolledBack, AllocateIP, Fails, SameTime
    <2> QED
      BY <2>1
  <1> QED
    BY <1>1, <1>2, <1>3, <1>4

\* A purge forgets leases that have expired, and contests only their addresses.
LEMMA PurgingStep ==
  ASSUME IInv, LInv, Purge
  PROVE  Leasing!Next \/ UNCHANGED <<leases, now, released, madeFor>>
  <1>1. /\ purgeT \in Nat /\ now \in Nat /\ purgeT <= now /\ now' = now
        /\ madeFor' = madeFor
        /\ \A c \in Clients : leases[c].exp \in Nat
    BY DEF Purge, IInv, Bounded, Core, Types, StoreTypeOK, Lease
  <1>2. CASE SameStore /\ UNCHANGED released
    BY <1>1, <1>2 DEF SameStore
  <1>3. CASE PurgeLeases(purgeT) /\ Releases(ExpiredIPs(purgeT))
    <2> DEFINE C == ExpiredClients(purgeT)
    <2> DEFINE A == ExpiredIPs(purgeT) \cap Claimed'
    <2>1. C \in SUBSET Clients /\ \A c \in C : Expired(leases[c], now)
      BY <1>1 DEF ExpiredClients, Expired
    <2>2. leases' = [c \in Clients |-> IF c \in C THEN NoLease ELSE leases[c]]
      BY <1>3 DEF PurgeLeases
    <2>3. released' = released \cup A
      BY <1>3 DEF Releases
    <2>4. A \in SUBSET Leasing!LapsedIPs
      BY <2>1, LapsedFacts DEF ExpiredIPs
    <2> HIDE DEF A, C
    <2> QED
      BY <1>1, <2>1, <2>2, <2>3, <2>4, ForgetStep
  <1> QED
    BY <1>2, <1>3 DEF Purge

LEMMA LeasingStep ==
  ASSUME IInv, WInv, LInv, LInv', [Next]_vars
  PROVE  [Leasing!Next]_Leasing!vars
  <1>1. CASE \E g \in Goroutines : HandlerStep(g)
    BY <1>1, LeasingHandlerStep DEF Leasing!vars
  <1>2. CASE Purge
    BY <1>2, PurgingStep DEF Leasing!vars
  <1>3. CASE Tick
    BY <1>3 DEF Tick, Leasing!Next, Leasing!Tick
  <1>4. CASE (\E g \in Goroutines : RequestIP(g)) \/ PurgeTick \/ Crash \/ UNCHANGED vars
    BY <1>4 DEF RequestIP, PurgeTick, Crash, SameStore, Works, SameTime, vars, Leasing!vars
  <1> QED
    BY <1>1, <1>2, <1>3, <1>4 DEF Next

\* For any clients that take turns, any goroutines, addresses and subnets, with
\* failing operations and crashes, the daemon is the service its clients may
\* rely on: every step is a step of LeaseService or none (handler.go:101-216).
THEOREM DaemonLeases == ASSUME ~Overlap PROVE Spec => ImplementsLeasing
  <1>1. Init => Leasing!Init
    BY DEF Init, Leasing!Init, NoLease, Leasing!NoLease
  <1>2. Init => JInv /\ WInv
    BY InitJInv, IdleShape DEF Init, WInv
  <1>3. JInv /\ WInv /\ [Next]_vars => WInv'
    BY NextWInv DEF JInv
  <1>4. JInv /\ JInv' /\ WInv /\ [Next]_vars => [Leasing!Next]_Leasing!vars
    BY LeasingStep DEF JInv
  <1> QED
    BY <1>1, <1>2, <1>3, <1>4, NextJInv, PTL DEF Spec, ImplementsLeasing, Leasing!Spec

=============================================================================
