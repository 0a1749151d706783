--------------------------- MODULE HandlerProofs ---------------------------
(***************************************************************************)
(* For any number of clients, handler goroutines, addresses and subnets,   *)
(* with overlapping requests, failing store operations and crashes: no     *)
(* address is ever held for two clients, and none that is held is free,    *)
(* unless it was freed while still held.                                   *)
(***************************************************************************)
EXTENDS Handler, TLAPS

\* A goroutine that is serving a request serves a client.
Serving == \A g \in Goroutines : ~At(g, "idle") => h[g].client \in Clients

Types ==
  /\ StoreTypeOK
  /\ h \in [Goroutines -> HandlerState]
  /\ now \in Nat
  /\ {purgeT, tick} \subseteq Nat \cup {None}
  /\ faults \in Nat
  /\ released \subseteq Addrs
  /\ madeFor \in [Clients -> SUBSET Families]

Core == Types /\ Serving /\ Exclusive

\* No tick comes from the future, and no lease expires late.
Bounded ==
  /\ purgeT # None => purgeT <= now
  /\ tick # None => tick <= now
  /\ \A c \in Clients : leases[c].exp <= now + LeaseDuration
  /\ \A g \in Goroutines : h[g].exp <= now + LeaseDuration

IInv == Core /\ Bounded

-----------------------------------------------------------------------------

LEMMA ClaimsMembers ==
  ASSUME NEW c, NEW a
  PROVE  a \in Claims(c) <=>
           \/ a \in leases[c].ips
           \/ \E g \in Goroutines : h[g].client = c /\ a \in h[g].ips
  BY DEF Claims

LEMMA ClaimsMembersPrime ==
  ASSUME NEW c, NEW a
  PROVE  a \in Claims(c)' <=>
           \/ a \in leases'[c].ips
           \/ \E g \in Goroutines : h'[g].client = c /\ a \in h'[g].ips
  BY DEF Claims

\* A step that gives nobody a new address, and records those it frees from
\* under someone, keeps claims exclusive.
LEMMA NoNewClaims ==
  ASSUME Exclusive,
         \A c \in Clients : Claims(c)' \subseteq Claims(c),
         released \subseteq released',
         (allocated \ allocated') \cap Claimed' \subseteq released'
  PROVE  Exclusive'
  <1> SUFFICES ASSUME NEW c \in Clients, NEW a \in Claims(c)', a \notin released'
               PROVE  /\ a \in allocated'
                      /\ \A d \in Clients \ {c} : a \notin Claims(d)'
    BY DEF Exclusive
  <1>1. a \in Claims(c) \ released
    OBVIOUS
  <1>2. a \in allocated /\ \A d \in Clients \ {c} : a \notin Claims(d)
    BY <1>1 DEF Exclusive
  <1>3. a \in Claimed'
    BY DEF Claimed
  <1> QED
    BY <1>2, <1>3

\* A step of goroutine g that leaves the leases alone gives nobody a new
\* address if g itself gains none.
LEMMA SameLeases ==
  ASSUME Types, NEW g \in Goroutines, NEW r,
         h' = [h EXCEPT ![g] = r],
         leases' = leases,
         r.ips \subseteq h[g].ips,
         r.client = h[g].client \/ r.ips = {}
  PROVE  \A c \in Clients : Claims(c)' \subseteq Claims(c)
  <1> SUFFICES ASSUME NEW c \in Clients, NEW a \in Claims(c)'
               PROVE  a \in Claims(c)
    OBVIOUS
  <1>1. CASE a \in leases'[c].ips
    BY <1>1, ClaimsMembers
  <1>2. ASSUME NEW f \in Goroutines, h'[f].client = c, a \in h'[f].ips
        PROVE  a \in Claims(c)
    <2>1. h'[f] = IF f = g THEN r ELSE h[f]
      BY DEF Types
    <2>2. h[f].client = c /\ a \in h[f].ips
      BY <1>2, <2>1
    <2> QED
      BY <2>2, ClaimsMembers
  <1> QED
    BY <1>1, <1>2, ClaimsMembersPrime

\* What a goroutine may become.
LEMMA IdleType == Idle \in HandlerState
  BY DEF Idle, HandlerState, Labels

LEMMA HandlerType ==
  ASSUME Types, NEW g \in Goroutines
  PROVE  /\ h[g] \in HandlerState
         /\ \A r \in HandlerState : [h EXCEPT ![g] = r] \in [Goroutines -> HandlerState]
  BY DEF Types


\* The beginning: nothing is held.
LEMMA InitCore == Init => Core
  <1> SUFFICES ASSUME Init PROVE Core
    OBVIOUS
  <1>1. Types
    BY IdleType DEF Init, Types, StoreTypeOK, NoLease, Lease
  <1>2. Serving
    BY DEF Init, Serving, At, Idle
  <1>3. \A c \in Clients : Claims(c) = {}
    <2> SUFFICES ASSUME NEW c \in Clients, NEW a \in Claims(c) PROVE FALSE
      OBVIOUS
    <2> QED
      BY ClaimsMembers DEF Init, NoLease, Idle
  <1>4. Exclusive
    BY <1>3 DEF Exclusive
  <1> QED
    BY <1>1, <1>2, <1>4 DEF Core

-----------------------------------------------------------------------------

\* Steps of one goroutine g that do not touch the leases and gain no address.
LEMMA LocalStep ==
  ASSUME Core, NEW g \in Goroutines, NEW r \in HandlerState,
         h' = [h EXCEPT ![g] = r],
         r.ips \subseteq h[g].ips,
         r.client = h[g].client \/ r.ips = {},
         r.pc # "idle" => r.client \in Clients,
         leases' = leases, allocated' \subseteq allocated,
         (allocated \ allocated') \cap Claimed' \subseteq released',
         released \subseteq released', released' \subseteq Addrs,
         now' = now, purgeT' = purgeT, tick' = tick, faults' \in Nat,
         madeFor' = madeFor
  PROVE  Core'
  <1>1. Types /\ Serving /\ Exclusive
    BY DEF Core
  <1>2. h' \in [Goroutines -> HandlerState]
    BY <1>1, HandlerType
  <1>3. Types'
    BY <1>1, <1>2 DEF Types, StoreTypeOK
  <1>4. Serving'
    BY <1>1 DEF Types, Serving, At
  <1>5. \A c \in Clients : Claims(c)' \subseteq Claims(c)
    BY <1>1, SameLeases
  <1>6. Exclusive'
    BY <1>1, <1>5, NoNewClaims
  <1> QED
    BY <1>3, <1>4, <1>6 DEF Core

\* The usual case: the store and the history are not touched either.
LEMMA QuietStep ==
  ASSUME Core, NEW g \in Goroutines, NEW r \in HandlerState,
         h' = [h EXCEPT ![g] = r],
         r.ips \subseteq h[g].ips,
         r.client = h[g].client \/ r.ips = {},
         r.pc # "idle" => r.client \in Clients,
         SameStore, Works \/ Fails
  PROVE  Core'
  <1>1. released \subseteq Addrs /\ faults \in Nat
    BY DEF Core, Types
  <1>2. /\ leases' = leases /\ allocated' = allocated /\ released' = released
        /\ now' = now /\ purgeT' = purgeT /\ tick' = tick /\ faults' \in Nat
        /\ madeFor' = madeFor
    BY <1>1 DEF SameStore, Works, Fails, Fault, SameTime
  <1> QED
    BY <1>1, <1>2, LocalStep

\* Returning to the caller drops whatever the goroutine held.
LEMMA ReturnStep ==
  ASSUME Core, NEW g \in Goroutines, Return(g), SameStore, Works \/ Fails
  PROVE  Core'
  BY IdleType, QuietStep DEF Return, Idle

\* Moving on with the addresses the goroutine has, any expiry and families.
LEMMA MoveOn ==
  ASSUME Core, NEW g \in Goroutines, ~At(g, "idle"),
         NEW pc \in Labels, NEW exp \in Nat, NEW F \in SUBSET Families,
         \/ h' = [h EXCEPT ![g].pc = pc, ![g].exp = exp]
         \/ h' = [h EXCEPT ![g].pc = pc, ![g].exp = exp, ![g].fams = F],
         SameStore, Works \/ Fails
  PROVE  Core'
  <1> DEFINE r == [h[g] EXCEPT !.pc = pc, !.exp = exp]
  <1> DEFINE q == [h[g] EXCEPT !.pc = pc, !.exp = exp, !.fams = F]
  <1>1. h[g] \in HandlerState /\ h[g].client \in Clients
    BY HandlerType DEF Core, Serving
  <1>2. /\ r \in HandlerState /\ r.ips = h[g].ips /\ r.client = h[g].client
        /\ q \in HandlerState /\ q.ips = h[g].ips /\ q.client = h[g].client
    BY <1>1 DEF HandlerState
  <1>3. h' = [h EXCEPT ![g] = r] \/ h' = [h EXCEPT ![g] = q]
    BY <1>1 DEF Core, Types, HandlerState
  <1> QED
    BY <1>1, <1>2, <1>3, QuietStep

LEMMA GotoStep ==
  ASSUME Core, NEW g \in Goroutines, ~At(g, "idle"), NEW pc \in Labels,
         Goto(g, pc), SameStore, Works \/ Fails
  PROVE  Core'
  <1> DEFINE r == [h[g] EXCEPT !.pc = pc]
  <1>1. h[g] \in HandlerState /\ h[g].client \in Clients
    BY HandlerType DEF Core, Serving
  <1>2. r \in HandlerState /\ r.ips = h[g].ips /\ r.client = h[g].client
    BY <1>1 DEF HandlerState
  <1>3. h' = [h EXCEPT ![g] = r]
    BY DEF Goto
  <1> QED
    BY <1>1, <1>2, <1>3, QuietStep

\* A new request holds nothing yet.
LEMMA RequestIPStep ==
  ASSUME Core, NEW g \in Goroutines, RequestIP(g) PROVE Core'
  <1>1. PICK c \in Clients, r \in Requests :
          h' = [h EXCEPT ![g] = [Idle EXCEPT !.pc = "lookup", !.client = c, !.req = r]]
    BY DEF RequestIP
  <1> DEFINE s == [Idle EXCEPT !.pc = "lookup", !.client = c, !.req = r]
  <1>2. s \in HandlerState /\ s.ips = {} /\ s.client \in Clients
    BY DEF Idle, HandlerState, Labels
  <1> QED
    BY <1>1, <1>2, QuietStep DEF RequestIP

\* Looking up a lease makes the handler hold what its client holds already.
LEMMA LookupStep ==
  ASSUME Core, NEW g \in Goroutines, Lookup(g) PROVE Core'
  <1> DEFINE c == h[g].client
  <1> DEFINE l == leases[c]
  <1>1. ~At(g, "idle") /\ h[g] \in HandlerState /\ c \in Clients
    BY HandlerType DEF Core, Serving, Lookup, At
  <1>2. CASE l = NoLease
    <2>1. Goto(g, "new") /\ SameStore /\ Works
      BY <1>2 DEF Lookup
    <2> QED
      BY <1>1, <2>1, GotoStep DEF Labels
  <1>3. CASE l # NoLease
    <2> DEFINE r == [h[g] EXCEPT !.pc = "decide", !.ips = l.ips, !.exp = l.exp,
                                 !.fams = madeFor[c]]
    <2>1. l \in Lease /\ madeFor[c] \in SUBSET Families
      BY <1>1 DEF Core, Types, StoreTypeOK
    <2>2. r \in HandlerState /\ r.client = c /\ r.ips = l.ips
      BY <1>1, <2>1 DEF HandlerState, Lease, Labels
    <2>3. h' = [h EXCEPT ![g] = r]
      BY <1>1, <1>3 DEF Lookup, Core, Types, HandlerState
    <2>4. Types'
      BY <2>2, <2>3, HandlerType
      DEF Core, Types, StoreTypeOK, Lookup, SameStore, Works, SameTime
    <2>5. Serving'
      BY <1>1, <2>2, <2>3 DEF Core, Types, Serving, At
    <2>6. ASSUME NEW d \in Clients, NEW a \in Claims(d)' PROVE a \in Claims(d)
      <3>1. leases' = leases
        BY DEF Lookup, SameStore
      <3>2. ASSUME NEW f \in Goroutines, h'[f].client = d, a \in h'[f].ips
            PROVE  a \in Claims(d)
        <4>1. h'[f] = IF f = g THEN r ELSE h[f]
          BY <2>3 DEF Core, Types
        <4>2. CASE f = g
          BY <3>2, <4>1, <4>2, <2>2, ClaimsMembers
        <4>3. CASE f # g
          BY <3>2, <4>1, <4>3, ClaimsMembers
        <4> QED
          BY <4>2, <4>3
      <3> QED
        BY <2>6, <3>1, <3>2, ClaimsMembers, ClaimsMembersPrime
    <2>7. Exclusive'
      BY <2>6, NoNewClaims DEF Core, Lookup, SameStore, Works
    <2> QED
      BY <2>4, <2>5, <2>7 DEF Core
  <1> QED
    BY <1>2, <1>3

\* Renewing, stamping and starting a lease change only what goroutine g knows.
LEMMA StampSteps ==
  ASSUME Core, NEW g \in Goroutines,
         RenewLease(g) \/ StampLease(g) \/ NewLease(g)
  PROVE  Core'
  <1>1. now + LeaseDuration \in Nat /\ 0 \in Nat
    BY HandlerAssumption DEF Core, Types
  <1>2. "save" \in Labels /\ "alloc" \in Labels
    BY DEF Labels
  <1>3. ~At(g, "idle") /\ SameStore /\ Works
    BY DEF RenewLease, StampLease, NewLease, StartsNewLease, At
  <1>4. CASE h' = [h EXCEPT ![g].pc = "save", ![g].exp = now + LeaseDuration]
    BY <1>1, <1>2, <1>3, <1>4, MoveOn
  <1>5. CASE h' = [h EXCEPT ![g].pc = "alloc", ![g].exp = 0,
                            ![g].fams = WantedFamilies(h[g].req)]
    <2>1. h[g].req \in Requests \cup {NoRequest}
      BY HandlerType DEF Core, HandlerState
    <2>2. WantedFamilies(h[g].req) \in SUBSET Families
      BY <2>1, HandlerAssumption DEF WantedFamilies, NoRequest, Request
    <2> QED
      BY <1>1, <1>2, <1>3, <1>5, <2>2, MoveOn
  <1> QED
    BY <1>4, <1>5 DEF RenewLease, StampLease, NewLease

\* Freeing one address of those held, recorded if someone else holds it too.
LEMMA FreeStep ==
  ASSUME Core, NEW g \in Goroutines, NEW a \in h[g].ips, ~At(g, "idle"),
         h' = [h EXCEPT ![g].ips = @ \ {a}],
         \/ FreeIP(a) /\ Releases({a}) /\ SameTime /\ UNCHANGED <<faults, madeFor>>
         \/ Fails
  PROVE  Core'
  <1> DEFINE r == [h[g] EXCEPT !.ips = @ \ {a}]
  <1>1. /\ h[g] \in HandlerState /\ h[g].client \in Clients /\ a \in Addrs
        /\ allocated \subseteq Addrs /\ released \subseteq Addrs /\ faults \in Nat
    BY HandlerType DEF Core, Serving, HandlerState, Types, StoreTypeOK
  <1>2. r \in HandlerState /\ r.ips \subseteq h[g].ips /\ r.client = h[g].client
    BY <1>1 DEF HandlerState
  <1>3. h' = [h EXCEPT ![g] = r]
    OBVIOUS
  <1>4. CASE Fails
    BY <1>1, <1>2, <1>3, <1>4, QuietStep DEF Fails
  <1>5. CASE FreeIP(a) /\ Releases({a}) /\ SameTime /\ UNCHANGED <<faults, madeFor>>
    <2>1. /\ leases' = leases /\ allocated' = allocated \ {a}
          /\ released' = released \cup ({a} \cap Claimed')
          /\ now' = now /\ purgeT' = purgeT /\ tick' = tick /\ faults' = faults
          /\ madeFor' = madeFor
      BY <1>5 DEF FreeIP, Releases, SameTime
    <2>2. /\ allocated' \subseteq allocated
          /\ (allocated \ allocated') \cap Claimed' \subseteq released'
          /\ released \subseteq released' /\ released' \subseteq Addrs
      BY <1>1, <2>1
    <2> QED
      BY <1>1, <1>2, <1>3, <2>1, <2>2, LocalStep
  <1> QED
    BY <1>4, <1>5

\* Cleaning up and rolling back free what the goroutine holds.
LEMMA FreeExpiredStep ==
  ASSUME Core, NEW g \in Goroutines, FreeExpired(g) PROVE Core'
  <1>1. PICK a \in h[g].ips :
          /\ h' = [h EXCEPT ![g].ips = @ \ {a}]
          /\ \/ FreeIP(a) /\ Releases({a}) /\ SameTime /\ UNCHANGED <<faults, madeFor>>
             \/ Fails
    BY DEF FreeExpired, FirstIP
  <1>2. ~At(g, "idle")
    BY DEF FreeExpired, At
  <1> QED
    BY <1>1, <1>2, FreeStep

LEMMA RollbackStep ==
  ASSUME Core, NEW g \in Goroutines, Rollback(g) PROVE Core'
  <1>1. ~At(g, "idle")
    BY DEF Rollback, At
  <1>2. CASE Return(g) /\ Fails
    BY <1>2, ReturnStep DEF Fails
  <1>3. CASE ~(Return(g) /\ Fails)
    <2>1. PICK a \in h[g].ips :
            /\ h' = [h EXCEPT ![g].ips = @ \ {a}]
            /\ FreeIP(a) /\ Releases({a}) /\ SameTime /\ UNCHANGED <<faults, madeFor>>
      BY <1>3 DEF Rollback, FirstIP
    <2> QED
      BY <1>1, <2>1, FreeStep
  <1> QED
    BY <1>2, <1>3

\* Deleting a lease leaves its addresses to the handler that looked it up.
LEMMA DeleteExpiredStep ==
  ASSUME Core, NEW g \in Goroutines, DeleteExpired(g) PROVE Core'
  <1>1. ~At(g, "idle") /\ h[g] \in HandlerState /\ h[g].client \in Clients
    BY HandlerType DEF Core, Serving, DeleteExpired, At
  <1>2. CASE Fails
    BY <1>1, <1>2, GotoStep DEF DeleteExpired, Fails, Labels
  <1>3. CASE DeleteLease(h[g].client) /\ Works
    <2> DEFINE r == [h[g] EXCEPT !.pc = "free"]
    <2>1. r \in HandlerState /\ r.client = h[g].client /\ r.ips = h[g].ips
      BY <1>1 DEF HandlerState, Labels
    <2>2. h' = [h EXCEPT ![g] = r]
      BY DEF DeleteExpired, Goto
    <2>3. leases' \in [Clients -> Lease]
          /\ \A c \in Clients : leases'[c].ips \subseteq leases[c].ips
      BY <1>1, <1>3
      DEF Core, Types, StoreTypeOK, DeleteLease, NoLease, Lease
    <2>4. Types'
      BY <1>3, <2>1, <2>2, <2>3, HandlerType
      DEF Core, Types, StoreTypeOK, DeleteLease, Works, SameTime
    <2>5. Serving'
      BY <1>1, <2>1, <2>2 DEF Core, Types, Serving, At
    <2>6. ASSUME NEW d \in Clients, NEW a \in Claims(d)' PROVE a \in Claims(d)
      <3>1. \A f \in Goroutines : h'[f].client = h[f].client /\ h'[f].ips = h[f].ips
        BY <2>1, <2>2 DEF Core, Types
      <3> QED
        BY <2>3, <2>6, <3>1, ClaimsMembers, ClaimsMembersPrime
    <2>7. Exclusive'
      BY <1>3, <2>6, NoNewClaims DEF Core, DeleteLease, Works
    <2> QED
      BY <2>4, <2>5, <2>7 DEF Core
  <1> QED
    BY <1>2, <1>3 DEF DeleteExpired

\* The one step that gives a client a new address takes one nobody holds,
\* because whatever is held is allocated.
LEMMA AllocateStep ==
  ASSUME Core, NEW g \in Goroutines, Allocate(g) PROVE Core'
  <1>1. ~At(g, "idle") /\ h[g] \in HandlerState /\ h[g].client \in Clients
    BY HandlerType DEF Core, Serving, Allocate, At
  <1>2. PICK a \in Addrs : /\ AllocateIP(a)
                           /\ h' = [h EXCEPT ![g].ips = @ \cup {a}]
    BY DEF Allocate, AddrsOf
  <1> DEFINE r == [h[g] EXCEPT !.ips = @ \cup {a}]
  <1>3. /\ r \in HandlerState /\ r.client = h[g].client
        /\ r.pc = h[g].pc /\ r.ips = h[g].ips \cup {a}
    BY <1>1 DEF HandlerState
  <1>4. h' = [h EXCEPT ![g] = r]
    BY <1>2
  <1>5. /\ a \notin allocated /\ allocated' = allocated \cup {a}
        /\ leases' = leases /\ released' = released
    BY <1>2 DEF AllocateIP, Allocate, Works
  <1>6. Types'
    BY <1>3, <1>4, <1>5, HandlerType
    DEF Core, Types, StoreTypeOK, Allocate, Works, SameTime
  <1>7. Serving'
    BY <1>1, <1>3, <1>4 DEF Core, Types, Serving, At
  <1>8. ASSUME NEW d \in Clients, NEW b \in Claims(d)'
        PROVE  b \in Claims(d) \/ (d = h[g].client /\ b = a)
    <2>1. ASSUME NEW f \in Goroutines, h'[f].client = d, b \in h'[f].ips
          PROVE  b \in Claims(d) \/ (d = h[g].client /\ b = a)
      <3>1. h'[f] = IF f = g THEN r ELSE h[f]
        BY <1>4 DEF Core, Types
      <3> QED
        BY <1>3, <2>1, <3>1, ClaimsMembers
    <2> QED
      BY <1>5, <1>8, <2>1, ClaimsMembers, ClaimsMembersPrime
  <1>9. Exclusive'
    <2> SUFFICES ASSUME NEW c \in Clients, NEW b \in Claims(c)', b \notin released'
                 PROVE  /\ b \in allocated'
                        /\ \A d \in Clients \ {c} : b \notin Claims(d)'
      BY DEF Exclusive
    <2>1. CASE b = a
      <3>1. \A d \in Clients : a \notin Claims(d)
        BY <1>5, <2>1 DEF Core, Exclusive
      <3> QED
        BY <1>5, <1>8, <2>1, <3>1
    <2>2. CASE b # a
      <3>1. b \in Claims(c) \ released
        BY <1>5, <1>8, <2>2
      <3>2. b \in allocated /\ \A d \in Clients \ {c} : b \notin Claims(d)
        BY <3>1 DEF Core, Exclusive
      <3> QED
        BY <1>5, <1>8, <2>2, <3>2
    <2> QED
      BY <2>1, <2>2
  <1> QED
    BY <1>6, <1>7, <1>9 DEF Core

\* Saving a lease hands what the handler holds to the client's lease.
LEMMA SaveStep ==
  ASSUME Core, NEW g \in Goroutines, Save(g) PROVE Core'
  <1> DEFINE c == h[g].client
  <1> DEFINE l == [ips |-> h[g].ips, exp |-> h[g].exp]
  <1>1. ~At(g, "idle") /\ h[g] \in HandlerState /\ c \in Clients
    BY HandlerType DEF Core, Serving, Save, At
  <1>2. CASE Fails
    BY <1>2, ReturnStep DEF Save, Fails
  <1>3. CASE /\ SaveLease(c, l) /\ SameTime /\ UNCHANGED <<faults, released>>
             /\ madeFor' = [madeFor EXCEPT ![c] = h[g].fams]
    <2>1. h' = [h EXCEPT ![g] = Idle]
      BY DEF Save, Return
    <2>2. /\ leases' = [leases EXCEPT ![c] = l] /\ l \in Lease
          /\ h[g].fams \in SUBSET Families
      BY <1>1, <1>3 DEF SaveLease, HandlerState, Lease
    <2>3. Types'
      BY <1>3, <2>1, <2>2, IdleType, HandlerType
      DEF Core, Types, StoreTypeOK, SaveLease, SameTime
    <2>4. Serving'
      BY <2>1 DEF Core, Types, Serving, At, Idle
    <2>5. ASSUME NEW d \in Clients, NEW a \in Claims(d)' PROVE a \in Claims(d)
      <3>1. CASE a \in leases'[d].ips
        <4>1. leases'[d] = IF d = c THEN l ELSE leases[d]
          BY <2>2 DEF Core, Types, StoreTypeOK
        <4> QED
          BY <3>1, <4>1, ClaimsMembers
      <3>2. ASSUME NEW f \in Goroutines, h'[f].client = d, a \in h'[f].ips
            PROVE  a \in Claims(d)
        <4>1. f # g /\ h'[f] = h[f]
          BY <2>1, <3>2 DEF Core, Types, Idle
        <4> QED
          BY <3>2, <4>1, ClaimsMembers
      <3> QED
        BY <2>5, <3>1, <3>2, ClaimsMembersPrime
    <2>6. Exclusive'
      BY <1>3, <2>5, NoNewClaims DEF Core, SaveLease
    <2> QED
      BY <2>3, <2>4, <2>6 DEF Core
  <1> QED
    BY <1>2, <1>3 DEF Save

LEMMA HandlerCore ==
  ASSUME Core, NEW g \in Goroutines, HandlerStep(g) PROVE Core'
  <1>1. CASE LookupFails(g)
    BY <1>1, ReturnStep DEF LookupFails, Fails
  <1>2. CASE Decide(g)
    <2>1. PICK pc \in {"delete", "renew"} : Goto(g, pc)
      BY <1>2 DEF Decide
    <2>2. ~At(g, "idle") /\ SameStore /\ Works /\ pc \in Labels
      BY <1>2 DEF Decide, At, Labels
    <2> QED
      BY <2>1, <2>2, GotoStep
  <1>3. CASE RefuseRenewal(g) \/ RefuseNew(g) \/ NothingAllocated(g)
             \/ RolledBack(g)
    BY <1>3, ReturnStep
    DEF RefuseRenewal, RefuseNew, NothingAllocated, RolledBack
  <1>4. CASE OutOfAddresses(g) \/ AllocateFails(g)
    <2>1. /\ ~At(g, "idle") /\ Goto(g, "rollback") /\ SameStore
          /\ Works \/ Fails
      BY <1>4 DEF OutOfAddresses, AllocateFails, At, Fails
    <2> QED
      BY <2>1, GotoStep DEF Labels
  <1> QED
    BY <1>1, <1>2, <1>3, <1>4, LookupStep, StampSteps, DeleteExpiredStep,
       FreeExpiredStep, AllocateStep, RollbackStep, SaveStep
    DEF HandlerStep

\* Purging takes leases away; a handler may still hold their addresses.
LEMMA PurgeStep == ASSUME Core, Purge PROVE Core'
  <1>1. h' = h /\ now' = now /\ purgeT' = tick /\ tick' = None /\ madeFor' = madeFor
    BY DEF Purge
  <1>2. CASE Fault /\ SameStore /\ UNCHANGED released
    <2>1. Types'
      BY <1>1, <1>2 DEF Core, Types, StoreTypeOK, Fault, SameStore
    <2> QED
      BY <1>1, <1>2, <2>1
      DEF Core, Serving, At, Exclusive, Claims, SameStore
  <1>3. CASE /\ PurgeLeases(purgeT) /\ Releases(ExpiredIPs(purgeT))
             /\ UNCHANGED faults
    <2>1. /\ leases' \in [Clients -> Lease]
          /\ \A c \in Clients : leases'[c].ips \subseteq leases[c].ips
      BY <1>3 DEF Core, Types, StoreTypeOK, PurgeLeases, NoLease, Lease
    <2>2. /\ allocated' = allocated \ ExpiredIPs(purgeT)
          /\ released' = released \cup (ExpiredIPs(purgeT) \cap Claimed')
          /\ faults' = faults
      BY <1>3 DEF PurgeLeases, Releases
    <2>3. ExpiredIPs(purgeT) \subseteq Addrs
      BY DEF Core, Types, StoreTypeOK, ExpiredIPs, ExpiredClients, Lease
    <2>4. Types'
      BY <1>1, <2>1, <2>2, <2>3 DEF Core, Types, StoreTypeOK
    <2>5. Serving'
      BY <1>1 DEF Core, Serving, At
    <2>6. ASSUME NEW d \in Clients, NEW a \in Claims(d)' PROVE a \in Claims(d)
      BY <1>1, <2>1, <2>6, ClaimsMembers, ClaimsMembersPrime
    <2>7. Exclusive'
      BY <2>2, <2>6, NoNewClaims DEF Core
    <2> QED
      BY <2>4, <2>5, <2>7 DEF Core
  <1> QED
    BY <1>2, <1>3 DEF Purge

\* A crash drops what the handlers held; the leases keep their addresses.
LEMMA CrashStep == ASSUME Core, Crash PROVE Core'
  <1>1. /\ h' = [g \in Goroutines |-> Idle] /\ leases' = leases
        /\ allocated' = allocated /\ released' = released
    BY DEF Crash
  <1>2. Types'
    BY <1>1, IdleType DEF Core, Types, StoreTypeOK, Crash, Fault
  <1>3. Serving'
    BY <1>1 DEF Serving, At, Idle
  <1>4. ASSUME NEW d \in Clients, NEW a \in Claims(d)' PROVE a \in Claims(d)
    BY <1>1, <1>4, ClaimsMembers, ClaimsMembersPrime DEF Idle
  <1>5. Exclusive'
    BY <1>1, <1>4, NoNewClaims DEF Core
  <1> QED
    BY <1>2, <1>3, <1>5 DEF Core

LEMMA NextCore == ASSUME Core, [Next]_vars PROVE Core'
  <1>1. CASE PurgeTick \/ Tick \/ UNCHANGED vars
    <2>1. h' = h /\ leases' = leases /\ allocated' = allocated
          /\ released' = released
      BY <1>1 DEF PurgeTick, Tick, vars
    <2>2. Types'
      BY <1>1 DEF Core, Types, StoreTypeOK, PurgeTick, Tick, vars
    <2> QED
      BY <2>1, <2>2 DEF Core, Serving, At, Exclusive, Claims
  <1> QED
    BY <1>1, RequestIPStep, HandlerCore, PurgeStep, CrashStep DEF Next

-----------------------------------------------------------------------------

\* A step of one goroutine, and the expiry of what it holds or saves.
LEMMA HandlerBounded ==
  ASSUME IInv, NEW g \in Goroutines, HandlerStep(g) PROVE Bounded'
  <1> DEFINE c == h[g].client
  <1> DEFINE late == now + LeaseDuration
  <1> USE DEF SameStore, SameTime, Works, Fails
  <1>1. /\ h \in [Goroutines -> HandlerState] /\ leases \in [Clients -> Lease]
        /\ h[g] \in HandlerState /\ now \in Nat /\ LeaseDuration \in Nat
        /\ h[g].exp <= late /\ 0 <= late
    BY HandlerAssumption DEF IInv, Core, Types, StoreTypeOK, Bounded
  <1>2. c \in Clients
    BY DEF IInv, Core, Serving, HandlerStep, Lookup, LookupFails, Decide, RenewLease,
       RefuseRenewal, DeleteExpired, FreeExpired, NewLease, RefuseNew,
       StartsNewLease, Allocate, OutOfAddresses, AllocateFails, StampLease,
       NothingAllocated, Rollback, RolledBack, Save, At
  <1>3. leases[c].exp <= late
    BY <1>2 DEF IInv, Bounded
  <1>4. CASE DeleteExpired(g) \/ Save(g)
    <2>1. /\ now' = now /\ purgeT' = purgeT /\ tick' = tick
          /\ \A f \in Goroutines \ {g} : h'[f] = h[f]
          /\ h'[g].exp \in {0, h[g].exp}
          /\ \A d \in Clients : leases'[d].exp \in {0, leases[d].exp, h[g].exp}
      BY <1>1, <1>2, <1>4
      DEF DeleteExpired, Save, DeleteLease, SaveLease, NoLease, Goto, Return, Idle,
          HandlerState, Lease
    <2> QED
      BY <1>1, <2>1 DEF IInv, Bounded
  <1>5. ASSUME /\ now' = now /\ purgeT' = purgeT /\ tick' = tick /\ leases' = leases
               /\ \A f \in Goroutines \ {g} : h'[f] = h[f]
               /\ h'[g].exp \in {0, late, h[g].exp, leases[c].exp}
        PROVE  Bounded'
    BY <1>1, <1>3, <1>5 DEF IInv, Bounded
  <1>6. CASE FreeExpired(g) \/ Rollback(g) \/ Allocate(g)
    <2>1. PICK ips : h' = [h EXCEPT ![g].ips = ips] \/ Return(g)
      BY <1>6 DEF FreeExpired, Rollback, Allocate
    <2>2. \/ Fails
          \/ SameTime /\ \E a : FreeIP(a) \/ AllocateIP(a)
      BY <1>6 DEF FreeExpired, Rollback, Allocate
    <2>3. leases' = leases /\ SameTime
      BY <2>2 DEF FreeIP, AllocateIP
    <2> QED
      BY <1>1, <1>5, <2>1, <2>3 DEF Return, Idle, HandlerState
  <1>7. CASE RenewLease(g) \/ NewLease(g) \/ StampLease(g)
    BY <1>1, <1>5, <1>7 DEF RenewLease, NewLease, StampLease, HandlerState
  <1>8. CASE Lookup(g) \/ Decide(g) \/ OutOfAddresses(g) \/ AllocateFails(g)
    BY <1>1, <1>5, <1>8 DEF Lookup, Decide, OutOfAddresses, AllocateFails, Goto,
                            HandlerState
  <1>9. CASE \/ LookupFails(g) \/ RefuseRenewal(g) \/ RefuseNew(g)
              \/ NothingAllocated(g) \/ RolledBack(g)
    BY <1>1, <1>5, <1>9 DEF LookupFails, RefuseRenewal, RefuseNew, NothingAllocated,
                             RolledBack, Return, Idle
  <1> QED
    BY <1>4, <1>6, <1>7, <1>8, <1>9 DEF HandlerStep

LEMMA NextBounded == ASSUME IInv, [Next]_vars PROVE Bounded'
  <1>1. /\ now \in Nat /\ LeaseDuration \in Nat /\ None \notin Nat
        /\ {purgeT, tick} \subseteq Nat \cup {None}
        /\ leases \in [Clients -> Lease] /\ h \in [Goroutines -> HandlerState]
        /\ \A c \in Clients : leases[c].exp \in Nat
        /\ \A g \in Goroutines : h[g].exp \in Nat
    BY HandlerAssumption DEF IInv, Core, Types, StoreTypeOK, Lease, HandlerState
  <1>2. CASE \E g \in Goroutines : HandlerStep(g)
    BY <1>2, HandlerBounded
  <1>3. CASE \E g \in Goroutines : RequestIP(g)
    <2>1. /\ \A g \in Goroutines : h'[g].exp \in {0, h[g].exp}
          /\ UNCHANGED <<now, purgeT, tick, leases>>
      BY <1>1, <1>3 DEF RequestIP, Idle, SameStore, Works, SameTime
    <2> QED
      BY <1>1, <2>1 DEF IInv, Bounded
  <1>4. CASE Purge
    <2>1. /\ \A c \in Clients : leases'[c].exp \in {0, leases[c].exp}
          /\ UNCHANGED <<h, now>> /\ purgeT' = tick /\ tick' = None
      BY <1>1, <1>4 DEF Purge, PurgeLeases, NoLease, SameStore
    <2> QED
      BY <1>1, <2>1 DEF IInv, Bounded
  <1>5. CASE Crash
    <2>1. /\ \A g \in Goroutines : h'[g].exp = 0
          /\ UNCHANGED <<leases, now>> /\ purgeT' = now /\ tick' = None
      BY <1>5 DEF Crash, Idle
    <2> QED
      BY <1>1, <2>1 DEF IInv, Bounded
  <1>6. CASE PurgeTick \/ Tick \/ UNCHANGED vars
    <2>1. /\ UNCHANGED <<leases, h>> /\ now' \in {now, now + 1}
          /\ purgeT' \in {purgeT, now} /\ tick' \in {tick, now}
      BY <1>6 DEF PurgeTick, Tick, vars
    <2> QED
      BY <1>1, <2>1 DEF IInv, Bounded
  <1> QED
    BY <1>2, <1>3, <1>4, <1>5, <1>6 DEF Next

LEMMA InitIInv == Init => IInv
  BY InitCore, HandlerAssumption DEF IInv, Init, Bounded, NoLease, Idle

LEMMA NextIInv == IInv /\ [Next]_vars => IInv'
  BY NextCore, NextBounded DEF IInv

LEMMA TypesAndBounds == IInv => TypeOK
  <1>1. Types => now \in Nat /\ {purgeT, tick} \subseteq Nat \cup {None}
    BY DEF Types
  <1>2. Types /\ Bounded => {purgeT, tick} \subseteq 0 .. now \cup {None}
    BY <1>1 DEF Bounded
  <1> QED
    BY <1>2 DEF IInv, Core, Types, Bounded, TypeOK

\* For every number of clients, goroutines, addresses and subnets, whatever
\* overlaps, fails or crashes: an address held for a client is allocated and
\* held for no other client, unless it was freed while held.
THEOREM AddressesExclusive == Spec => [](TypeOK /\ Exclusive)
  <1>1. IInv => TypeOK /\ Exclusive
    BY TypesAndBounds DEF IInv, Core
  <1> QED
    BY <1>1, InitIInv, NextIInv, PTL DEF Spec

=============================================================================
