--------------------------- MODULE FileCountProofs ---------------------------
(***************************************************************************)
(* How many: an address is recorded at least as often as it is held, and   *)
(* the gauges count what is recorded, for any clients, addresses and       *)
(* prefixes, any configurations, and any number of crashes and faults.     *)
(***************************************************************************)
EXTENDS FileStoreProofs, FiniteSetTheorems

\* Who holds an address, and which subnets record it.
Holders(a) == {c \in Clients : a \in Claims(c)}
Records(a) == {p \in Made : a \in buckets[p]}

Buckets ==
  /\ Made \subseteq Prefixes
  /\ \A p \in Made : buckets[p] \in SUBSET p

\* How far the start-up has got: every subnet of s.subnets has its bucket, but
\* for the one whose transaction has not been committed.
Started ==
  /\ cfg \in Configurations
  /\ main \in {"lock", "commit", "serve"}
  /\ main = "lock" => saved \in 0 .. Len(cfg) - 1
  /\ main = "commit" => saved \in 1 .. Len(cfg)
  /\ main = "serve" => saved = Len(cfg)
  /\ \A k \in 1 .. saved : cfg[k] \in Made \/ (main = "commit" /\ k = saved)

SInv == IInv /\ Buckets /\ Started

\* Until something is served the gauges are what they were counted to be.
Counted ==
  /\ gauge \in [Prefixes -> Int]
  /\ main # "serve" => gauge = CountedIn(buckets)

GInv == Counted /\ GaugeExact

-----------------------------------------------------------------------------
\* The start-up.

LEMMA ConfigurationFacts ==
  ASSUME NEW f \in Configurations
  PROVE  /\ f \in Seq(Prefixes) /\ Len(f) \in Nat \ {0}
         /\ \A k \in 1 .. Len(f) : f[k] \in Prefixes
         /\ \A j, k \in 1 .. Len(f) : f[j] # f[k] => f[j] \cap f[k] = {}
  <1>1. f \in Seq(Prefixes) /\ f # <<>>
    BY ConfigurationsAreSequences DEF Configurations, CheckSubnets
  <1>2. DOMAIN f = 1 .. Len(f) /\ Len(f) \in Nat \ {0}
    BY <1>1
  <1>3. ASSUME NEW j \in 1 .. Len(f), NEW k \in 1 .. Len(f), f[j] # f[k]
        PROVE  f[j] \cap f[k] = {}
    BY <1>2, <1>3, SubnetsApart
  <1> QED
    BY <1>1, <1>2, <1>3

\* The subnets of this run are prefixes, and two of them share no address.
LEMMA SubnetsFacts ==
  ASSUME Started
  PROVE  /\ Subnets \subseteq Prefixes
         /\ \A p, q \in Subnets : p # q => p \cap q = {}
         /\ main = "serve" => Subnets \subseteq Made
  <1>1. saved \in 0 .. Len(cfg)
    BY ConfigurationFacts DEF Started
  <1>2. Subnets \subseteq {cfg[k] : k \in 1 .. Len(cfg)}
    BY <1>1, ConfigurationFacts DEF Subnets, Started
  <1> QED
    BY <1>2, ConfigurationFacts DEF Started, Subnets

LEMMA InitSInv == Init => SInv
  <1> SUFFICES ASSUME Init PROVE SInv
    OBVIOUS
  <1>1. Buckets
    BY DEF Init, Buckets, Made
  <1>2. Started
    BY ConfigurationFacts DEF Init, Started
  <1> QED
    BY <1>1, <1>2, InitIInv DEF SInv

\* Buckets are only added, and what happens to one stays in its subnet.
LEMMA BucketsStep ==
  ASSUME SInv, Next
  PROVE  Buckets' /\ Made \subseteq Made'
  <1>1. Made \subseteq Prefixes /\ \A p \in Made : buckets[p] \in SUBSET p
    BY DEF SInv, Buckets
  <1>2. CASE buckets' = buckets
    BY <1>1, <1>2 DEF Buckets, Made
  <1>3. CASE SaveSubnetCommit
    <2>1. buckets' = [p \in Made \cup {cfg[saved]} |->
                        IF p \in Made THEN buckets[p] ELSE {}]
      BY <1>3 DEF SaveSubnetCommit
    <2>2. cfg[saved] \in Prefixes
      BY <1>3, ConfigurationFacts DEF SInv, Started, SaveSubnetCommit
    <2> QED
      BY <1>1, <2>1, <2>2 DEF Buckets, Made
  <1>4. ASSUME NEW owed, FreeIPs(owed) PROVE Buckets' /\ Made \subseteq Made'
    <2>1. PICK A : buckets' = [p \in Made |->
                     IF p \in Subnets THEN buckets[p] \ A ELSE buckets[p]]
      BY <1>4 DEF FreeIPs
    <2> QED
      BY <1>1, <2>1 DEF Buckets, Made
  <1>5. ASSUME NEW c \in Clients, AllocateIP(c) PROVE Buckets' /\ Made \subseteq Made'
    <2> DEFINE s == cfg[h[c].n + 1]
    <2>1. PICK a \in FreeIn(s) : buckets' = [buckets EXCEPT ![s] = @ \cup {a}]
      BY <1>5 DEF AllocateIP
    <2> HIDE DEF s
    <2> QED
      BY <1>1, <2>1 DEF Buckets, Made, FreeIn
  <1>6. CASE PurgeCommit
    BY <1>4, <1>6 DEF PurgeCommit
  <1>7. ASSUME NEW c \in Clients, FreeIP(c) PROVE Buckets' /\ Made \subseteq Made'
    BY <1>4, <1>7 DEF FreeIP
  <1> QED
    BY <1>2, <1>3, <1>5, <1>6, <1>7
    DEF Next, Tick, Restart, SaveSubnetLock, PurgeBegin, PurgeFails, Lookup, Save,
        RenewFails, SaveFails, DeleteLease, DeleteFails, FreeFails, GiveUp

LEMMA StartedStep ==
  ASSUME SInv, Next
  PROVE  Started'
  <1>1. /\ Made \subseteq Made' /\ Started
        /\ Len(cfg) \in Nat \ {0}
    BY BucketsStep, ConfigurationFacts DEF SInv, Started
  <1>2. CASE UNCHANGED <<cfg, saved, main>>
    BY <1>1, <1>2 DEF Started
  <1>3. CASE Restart
    BY <1>3, ConfigurationFacts DEF Restart, Started
  <1>4. CASE SaveSubnetLock
    <2>1. cfg' = cfg /\ main = "lock" /\ saved' = saved + 1 /\ main' = "commit"
          /\ saved \in 0 .. Len(cfg) - 1
      BY <1>1, <1>4 DEF SaveSubnetLock, Started
    <2>2. \A k \in 1 .. saved : cfg[k] \in Made'
      BY <1>1, <2>1 DEF Started
    <2> QED
      BY <1>1, <2>1, <2>2 DEF Started
  <1>5. CASE SaveSubnetCommit
    <2>1. /\ cfg' = cfg /\ main = "commit" /\ saved' = saved
          /\ saved \in 1 .. Len(cfg)
          /\ main' = IF saved = Len(cfg) THEN "serve" ELSE "lock"
          /\ cfg[saved] \in Made'
      BY <1>1, <1>5 DEF SaveSubnetCommit, Started, Made
    <2>2. \A k \in 1 .. saved : cfg[k] \in Made'
      BY <1>1, <2>1 DEF Started
    <2> QED
      BY <1>1, <2>1, <2>2 DEF Started
  <1> QED
    BY <1>2, <1>3, <1>4, <1>5
    DEF Next, Tick, PurgeBegin, PurgeCommit, PurgeFails, Lookup, Save, RenewFails,
        SaveFails, DeleteLease, DeleteFails, FreeIP, FreeFails, AllocateIP, GiveUp

LEMMA NextSInv == ASSUME SInv, [Next]_vars PROVE SInv'
  <1>1. IInv'
    BY NextIInv DEF SInv
  <1>2. CASE UNCHANGED vars
    BY <1>1, <1>2 DEF vars, SInv, Buckets, Made, Started
  <1> QED
    BY <1>1, <1>2, BucketsStep, StartedStep DEF SInv

-----------------------------------------------------------------------------
\* Who holds an address and who records it.

LEMMA Finite ==
  ASSUME SInv, NEW a
  PROVE  /\ IsFiniteSet(Holders(a)) /\ IsFiniteSet(Records(a))
         /\ Cardinality(Holders(a)) \in Nat /\ Cardinality(Records(a)) \in Nat
  <1>1. Holders(a) \in SUBSET Clients /\ Records(a) \in SUBSET Prefixes
    BY DEF Holders, Records, SInv, Buckets
  <1> QED
    BY <1>1, FS_Subset, FS_CardinalityType, FileStoreAssumption

\* Fewer holders and more records.
LEMMA Fewer ==
  ASSUME NEW H, NEW R, NEW H1, NEW R1, IsFiniteSet(H), IsFiniteSet(R1),
         H1 \subseteq H, R \subseteq R1, Cardinality(H) <= Cardinality(R)
  PROVE  Cardinality(H1) <= Cardinality(R1)
  <1>1. Cardinality(H1) <= Cardinality(H) /\ IsFiniteSet(H1)
    BY FS_Subset
  <1>2. Cardinality(R) <= Cardinality(R1) /\ IsFiniteSet(R)
    BY FS_Subset
  <1> QED
    BY <1>1, <1>2, FS_CardinalityType

\* One holder less, and at most one record.
LEMMA OneLess ==
  ASSUME NEW H, NEW R, NEW H1, NEW R1, NEW c, NEW p, IsFiniteSet(H), IsFiniteSet(R),
         c \in H, H1 \subseteq H \ {c}, R \ {p} \subseteq R1, R1 \subseteq R,
         Cardinality(H) <= Cardinality(R)
  PROVE  Cardinality(H1) <= Cardinality(R1)
  <1>1. IsFiniteSet(H \ {c}) /\ Cardinality(H \ {c}) = Cardinality(H) - 1
    BY FS_RemoveElement
  <1>2. IsFiniteSet(R \ {p})
        /\ Cardinality(R \ {p}) = IF p \in R THEN Cardinality(R) - 1 ELSE Cardinality(R)
    BY FS_RemoveElement
  <1>3. IsFiniteSet(R1)
    BY FS_Subset
  <1>4. Cardinality(H) \in Nat /\ Cardinality(R) \in Nat
    BY FS_CardinalityType
  <1>5. Cardinality(H \ {c}) <= Cardinality(R \ {p})
    BY <1>1, <1>2, <1>4
  <1> QED
    BY <1>1, <1>3, <1>5, Fewer

\* One holder more, and one record.
LEMMA OneMore ==
  ASSUME NEW H, NEW R, NEW H1, NEW R1, NEW c, NEW p, IsFiniteSet(H), IsFiniteSet(R),
         H1 \subseteq H \cup {c}, R1 = R \cup {p}, p \notin R,
         Cardinality(H) <= Cardinality(R)
  PROVE  Cardinality(H1) <= Cardinality(R1)
  <1>1. IsFiniteSet(H \cup {c})
        /\ Cardinality(H \cup {c}) = IF c \in H THEN Cardinality(H) ELSE Cardinality(H) + 1
    BY FS_AddElement
  <1>2. IsFiniteSet(R1) /\ Cardinality(R1) = Cardinality(R) + 1
    BY FS_AddElement
  <1>3. Cardinality(H) \in Nat /\ Cardinality(R) \in Nat
    BY FS_CardinalityType
  <1>4. Cardinality(H \cup {c}) <= Cardinality(R1)
    BY <1>1, <1>2, <1>3
  <1> QED
    BY <1>1, <1>2, <1>4, Fewer

LEMMA ClaimsShrink ==
  ASSUME SInv, SInv', HoldersRecorded, released \subseteq released',
         \A c \in Clients : Claims(c)' \subseteq Claims(c),
         \A p \in Made : buckets'[p] = buckets[p], Made \subseteq Made'
  PROVE  HoldersRecorded'
  <1> SUFFICES ASSUME NEW a \in Addrs \ released'
               PROVE  Cardinality(Holders(a)') <= Cardinality(Records(a)')
    BY DEF HoldersRecorded, Holders, Records
  <1>1. Holders(a)' \subseteq Holders(a) /\ Records(a) \subseteq Records(a)'
    BY DEF Holders, Records
  <1>2. Cardinality(Holders(a)) <= Cardinality(Records(a))
    BY DEF HoldersRecorded, Holders, Records
  <1>3. IsFiniteSet(Holders(a)) /\ IsFiniteSet(Records(a)')
    <2>1. Records(a)' \in SUBSET Prefixes
      BY DEF Records, SInv, Buckets
    <2> QED
      BY <2>1, Finite, FS_Subset, FileStoreAssumption
  <1> QED
    BY <1>1, <1>2, <1>3, Fewer

\* Whatever is freed for a client takes one entry away at most, since only one
\* of the configured subnets contains it.
LEMMA FreedRecorded ==
  ASSUME SInv, HoldersRecorded, NEW owed \in SUBSET (Clients \X Addrs),
         FreeIPs(owed), \A c \in Clients : Claims(c)' \subseteq Claims(c),
         \A o \in owed : o[2] \in Claims(o[1])
  PROVE  HoldersRecorded'
  <1> DEFINE A == {o[2] : o \in owed}
  <1> SUFFICES ASSUME NEW a \in Addrs \ released'
               PROVE  Cardinality(Holders(a)') <= Cardinality(Records(a)')
    BY DEF HoldersRecorded, Holders, Records
  <1>1. /\ buckets' = [p \in Made |->
                         IF p \in Subnets THEN buckets[p] \ A ELSE buckets[p]]
        /\ released' = released \cup
             {o[2] : o \in {x \in owed : x[2] \in Claims(x[1])'}}
    BY DEF FreeIPs
  <1>2. Cardinality(Holders(a)) <= Cardinality(Records(a))
    BY <1>1 DEF HoldersRecorded, Holders, Records
  <1>3. Holders(a)' \subseteq Holders(a) /\ Records(a)' \subseteq Records(a)
    BY <1>1 DEF Holders, Records, Made
  <1>4. CASE a \notin A
    <2>1. Records(a)' = Records(a)
      BY <1>1, <1>4 DEF Records, Made
    <2> QED
      BY <1>2, <1>3, <2>1, Finite, Fewer
  <1>5. CASE a \in A
    <2>1. PICK o \in owed : o[2] = a
      BY <1>5
    <2>2. o[1] \in Clients /\ o[1] \in Holders(a) /\ o[1] \notin Holders(a)'
      BY <1>1, <2>1 DEF Holders
    <2>3. PICK p : Records(a) \ {p} \subseteq Records(a)'
      <3>1. \A q \in Records(a) : q \notin Subnets => q \in Records(a)'
        BY <1>1 DEF Records, Made
      <3>2. \A q, r \in Records(a) : q \in Subnets /\ r \in Subnets => q = r
        <4>1. \A q \in Records(a) : a \in q
          BY DEF Records, SInv, Buckets
        <4> QED
          BY <4>1, SubnetsFacts DEF SInv
      <3> QED
        BY <3>1, <3>2
    <2>4. Holders(a)' \subseteq Holders(a) \ {o[1]}
      BY <1>3, <2>2
    <2>5. IsFiniteSet(Holders(a)) /\ IsFiniteSet(Records(a)) /\ o[1] \in Holders(a)
      BY <2>2, Finite
    <2> QED
      BY <1>2, <1>3, <2>3, <2>4, <2>5, OneLess
  <1> QED
    BY <1>4, <1>5

\* A handler's step: its own claims decide.
LEMMA WorkClaims ==
  ASSUME IInv, NEW c \in Clients, NEW pc, NEW ips, NEW n, NEW l,
         h' = [h EXCEPT ![c] = [pc |-> pc, ips |-> ips, n |-> n]],
         (leases' = leases /\ l = leases[c]) \/ leases' = [leases EXCEPT ![c] = l]
  PROVE  /\ Claims(c)' = l.ips \cup ips
         /\ \A d \in Clients \ {c} : Claims(d)' = Claims(d)
  BY DEF IInv, Types, Claims

\* The handlers' steps that leave the buckets alone take no claim.
LEMMA HandlerClaims ==
  ASSUME IInv, NEW c \in Clients,
         \/ Lookup(c) \/ Save(c) \/ RenewFails(c) \/ SaveFails(c)
         \/ DeleteLease(c) \/ DeleteFails(c) \/ FreeFails(c) \/ GiveUp(c)
  PROVE  \A d \in Clients : Claims(d)' \subseteq Claims(d)
  <1>1. CASE Lookup(c)
    <2>1. leases' = leases /\ \E pc : Work(c, pc, {}, 0) \/ Work(c, pc, leases[c].ips, 0)
      BY <1>1 DEF Lookup
    <2>2. PICK pc, ips : Work(c, pc, ips, 0) /\ ips \subseteq leases[c].ips
      BY <2>1
    <2> QED
      BY <2>1, <2>2, WorkClaims DEF Work, Claims
  <1>2. CASE Save(c)
    <2> DEFINE l == [ips |-> h[c].ips, exp |-> now + LeaseDuration]
    <2>1. h' = [h EXCEPT ![c] = [pc |-> "idle", ips |-> {}, n |-> 0]]
          /\ leases' = [leases EXCEPT ![c] = l]
      BY <1>2 DEF Save, Idle
    <2>2. l.ips = h[c].ips
      OBVIOUS
    <2> HIDE DEF l
    <2> QED
      BY <2>1, <2>2, WorkClaims DEF Claims
  <1>3. CASE DeleteLease(c)
    <2>1. leases' = [leases EXCEPT ![c] = NoLease] /\ Work(c, "free", h[c].ips, h[c].n)
      BY <1>3 DEF DeleteLease
    <2> QED
      BY <2>1, WorkClaims DEF Work, Claims, NoLease
  <1>4. ASSUME NEW pc, NEW ips, NEW n, ips \subseteq h[c].ips,
               Work(c, pc, ips, n), leases' = leases
        PROVE  \A d \in Clients : Claims(d)' \subseteq Claims(d)
    BY <1>4, WorkClaims DEF Work, Claims
  <1>5. CASE GiveUp(c) \/ DeleteFails(c)
    BY <1>4, <1>5 DEF GiveUp, DeleteFails
  <1>6. CASE RenewFails(c) \/ SaveFails(c) \/ FreeFails(c)
    <2>1. leases' = leases
      BY <1>6 DEF RenewFails, SaveFails, FreeFails
    <2>2. CASE h' = [h EXCEPT ![c] = Idle]
      <3>1. Work(c, "idle", {}, 0)
        BY <2>2 DEF Work, Idle
      <3> QED
        BY <1>4, <2>1, <3>1
    <2>3. ASSUME NEW a \in h[c].ips, Dropped(c, a)
          PROVE  \A d \in Clients : Claims(d)' \subseteq Claims(d)
      BY <1>4, <2>1, <2>3 DEF Dropped
    <2> QED
      BY <1>6, <2>2, <2>3 DEF RenewFails, SaveFails, FreeFails
  <1> QED
    BY <1>1, <1>2, <1>3, <1>5, <1>6

\* A handler frees addresses it holds.
LEMMA FreeIPOwes ==
  ASSUME IInv, NEW c \in Clients, FreeIP(c)
  PROVE  \E owed \in SUBSET (Clients \X Addrs) :
           /\ FreeIPs(owed)
           /\ \A d \in Clients : Claims(d)' \subseteq Claims(d)
           /\ \A o \in owed : o[2] \in Claims(o[1])
           /\ UNCHANGED <<cfg, saved, main>>
  <1>1. PICK a \in h[c].ips : Dropped(c, a) /\ UNCHANGED leases /\ FreeIPs({<<c, a>>})
    BY DEF FreeIP
  <1>2. PICK pc, ips, n : Work(c, pc, ips, n) /\ ips \subseteq h[c].ips
    BY <1>1 DEF Dropped
  <1>3. \A d \in Clients : Claims(d)' \subseteq Claims(d)
    BY <1>1, <1>2, WorkClaims DEF Work, Claims
  <1>4. a \in Addrs /\ a \in Claims(c)
    BY <1>1 DEF IInv, Types, Claims
  <1>5. {<<c, a>>} \in SUBSET (Clients \X Addrs)
        /\ \A o \in {<<c, a>>} : o[2] \in Claims(o[1])
    BY <1>4
  <1> QED
    BY <1>1, <1>3, <1>5 DEF FreeIP

\* Purge frees what expired leases hold.
LEMMA PurgeOwes ==
  ASSUME IInv, PurgeCommit
  PROVE  \E owed \in SUBSET (Clients \X Addrs) :
           /\ FreeIPs(owed)
           /\ \A d \in Clients : Claims(d)' \subseteq Claims(d)
           /\ \A o \in owed : o[2] \in Claims(o[1])
           /\ UNCHANGED <<cfg, saved, main>>
  <1> DEFINE X == ExpiredClients(purge)
  <1> DEFINE owed == {o \in Clients \X Addrs : o[1] \in X /\ o[2] \in leases[o[1]].ips}
  <1>1. /\ leases' = [c \in Clients |-> IF c \in X THEN NoLease ELSE leases[c]]
        /\ h' = h /\ FreeIPs(owed) /\ UNCHANGED <<cfg, saved, main>>
    BY DEF PurgeCommit
  <1>2. \A d \in Clients : Claims(d)' \subseteq Claims(d)
    BY <1>1 DEF Claims, NoLease
  <1>3. owed \in SUBSET (Clients \X Addrs) /\ \A o \in owed : o[2] \in Claims(o[1])
    BY DEF Claims
  <1> HIDE DEF owed
  <1> QED
    BY <1>1, <1>2, <1>3

\* A handler records what it takes.
LEMMA AllocateRecorded ==
  ASSUME SInv, SInv', HoldersRecorded, NEW c \in Clients, AllocateIP(c)
  PROVE  HoldersRecorded'
  <1> DEFINE s == cfg[h[c].n + 1]
  <1>1. PICK x \in FreeIn(s) :
          /\ buckets' = [buckets EXCEPT ![s] = @ \cup {x}]
          /\ Work(c, "alloc", h[c].ips \cup {x}, h[c].n + 1)
          /\ leases' = leases /\ released' = released
    BY DEF AllocateIP
  <1>2. s \in Made /\ s \in Subnets
    <2>1. h[c].n + 1 \in 1 .. saved /\ main = "serve"
      BY DEF AllocateIP, At, SInv, IInv, Types, Started
    <2> QED
      BY <2>1, SubnetsFacts DEF SInv, Subnets
  <1>3. Claims(c)' \subseteq Claims(c) \cup {x}
        /\ \A d \in Clients \ {c} : Claims(d)' = Claims(d)
    BY <1>1, WorkClaims DEF SInv, Work, Claims
  <1> HIDE DEF s
  <1> SUFFICES ASSUME NEW a \in Addrs \ released
               PROVE  Cardinality(Holders(a)') <= Cardinality(Records(a)')
    BY <1>1 DEF HoldersRecorded, Holders, Records
  <1>4. /\ Cardinality(Holders(a)) <= Cardinality(Records(a))
        /\ IsFiniteSet(Holders(a)) /\ IsFiniteSet(Records(a))
    BY Finite DEF HoldersRecorded, Holders, Records
  <1>5. CASE a = x
    <2>1. Holders(a)' \subseteq Holders(a) \cup {c}
      BY <1>3 DEF Holders
    <2>2. Records(a)' = Records(a) \cup {s} /\ s \notin Records(a)
      BY <1>1, <1>2, <1>5 DEF Records, Made, FreeIn
    <2> QED
      BY <1>4, <2>1, <2>2, OneMore
  <1>6. CASE a # x
    <2>1. Holders(a)' \subseteq Holders(a)
      BY <1>3, <1>6 DEF Holders
    <2>2. Records(a)' = Records(a)
      BY <1>1, <1>2, <1>6 DEF Records, Made
    <2> QED
      BY <1>4, <2>1, <2>2, Fewer
  <1> QED
    BY <1>5, <1>6

LEMMA HoldersStep ==
  ASSUME SInv, HoldersRecorded, [Next]_vars
  PROVE  HoldersRecorded'
  <1>1. SInv'
    BY NextSInv
  <1>2. CASE /\ \A d \in Clients : Claims(d)' \subseteq Claims(d)
             /\ buckets' = buckets /\ released' = released
    BY <1>1, <1>2, ClaimsShrink DEF Made
  <1>3. CASE UNCHANGED <<leases, h, buckets, released>>
    BY <1>2, <1>3 DEF Claims
  <1>4. CASE Restart
    <2>1. /\ UNCHANGED <<leases, buckets, released>>
          /\ \A d \in Clients : h'[d].ips = {}
      BY <1>4 DEF Restart, Idle
    <2> QED
      BY <1>2, <2>1 DEF Claims
  <1>5. CASE SaveSubnetCommit
    <2>1. /\ buckets' = [p \in Made \cup {cfg[saved]} |->
                           IF p \in Made THEN buckets[p] ELSE {}]
          /\ UNCHANGED <<leases, h, released>>
      BY <1>5 DEF SaveSubnetCommit
    <2>2. Made \subseteq Made' /\ \A p \in Made : buckets'[p] = buckets[p]
      BY <2>1 DEF Made
    <2>3. \A d \in Clients : Claims(d)' = Claims(d)
      BY <2>1 DEF Claims
    <2> QED
      BY <1>1, <2>1, <2>2, <2>3, ClaimsShrink
  <1>6. CASE PurgeCommit
    BY <1>6, PurgeOwes, FreedRecorded DEF SInv
  <1>7. ASSUME NEW c \in Clients, FreeIP(c) PROVE HoldersRecorded'
    BY <1>7, FreeIPOwes, FreedRecorded DEF SInv
  <1>8. ASSUME NEW c \in Clients, AllocateIP(c) PROVE HoldersRecorded'
    BY <1>1, <1>8, AllocateRecorded
  <1>9. ASSUME NEW c \in Clients,
               \/ Lookup(c) \/ Save(c) \/ RenewFails(c) \/ SaveFails(c)
               \/ DeleteLease(c) \/ DeleteFails(c) \/ FreeFails(c) \/ GiveUp(c)
        PROVE  HoldersRecorded'
    <2>1. buckets' = buckets /\ released' = released
      BY <1>9 DEF Lookup, Save, RenewFails, SaveFails, DeleteLease, DeleteFails,
                  FreeFails, GiveUp
    <2> QED
      BY <1>2, <1>9, <2>1, HandlerClaims DEF SInv
  <1> QED
    BY <1>3, <1>4, <1>5, <1>6, <1>7, <1>8, <1>9
    DEF Next, vars, Tick, SaveSubnetLock, PurgeBegin, PurgeFails

LEMMA InitHolders == Init => HoldersRecorded
  <1> SUFFICES ASSUME Init, NEW a \in Addrs
               PROVE  Cardinality(Holders(a)) <= Cardinality(Records(a))
    BY DEF HoldersRecorded, Holders, Records
  <1>1. Holders(a) = {} /\ Records(a) = {}
    BY DEF Init, Holders, Records, Claims, Made, NoLease, Idle
  <1> QED
    BY <1>1, FS_EmptySet

-----------------------------------------------------------------------------
\* The gauges.

\* When is the gauge of p promised to be right?
Undisturbed(p) ==
  p \cap released = {} /\ \A q \in Made \ Subnets : p \cap buckets[q] = {}

LEMMA FiniteBucket ==
  ASSUME SInv, NEW p \in Made
  PROVE  IsFiniteSet(buckets[p]) /\ Cardinality(buckets[p]) \in Nat
  <1>1. buckets[p] \in SUBSET Addrs
    BY FileStoreAssumption DEF SInv, Buckets
  <1> QED
    BY <1>1, FS_Subset, FS_CardinalityType, FileStoreAssumption

\* What is held in an undisturbed subnet is recorded there and held once.
LEMMA HeldOnce ==
  ASSUME SInv, HoldersRecorded, NEW p \in Subnets \cap Made, Undisturbed(p),
         NEW a \in p, NEW c \in Clients, a \in Claims(c)
  PROVE  a \in buckets[p] /\ \A d \in Clients : a \in Claims(d) => d = c
  <1>1. a \in Addrs \ released
    BY FileStoreAssumption DEF Undisturbed, SInv, Buckets
  <1>2. Cardinality(Holders(a)) <= Cardinality(Records(a))
    BY <1>1 DEF HoldersRecorded, Holders, Records
  <1>3. Records(a) \subseteq {p}
    <2> SUFFICES ASSUME NEW q \in Records(a) PROVE q = p
      OBVIOUS
    <2>1. q \in Made /\ a \in buckets[q] /\ a \in q
      BY DEF Records, SInv, Buckets
    <2>2. q \in Subnets
      BY <2>1 DEF Undisturbed
    <2> QED
      BY <2>1, <2>2, SubnetsFacts DEF SInv
  <1>4. Cardinality({p}) = 1 /\ IsFiniteSet({p})
    BY FS_Singleton
  <1>5. Cardinality(Records(a)) <= 1
    BY <1>3, <1>4, FS_Subset
  <1>6. c \in Holders(a) /\ Cardinality(Holders(a)) # 0
    BY Finite, FS_EmptySet DEF Holders
  <1>7. Cardinality(Holders(a)) = 1 /\ Cardinality(Records(a)) # 0
    BY <1>2, <1>5, <1>6, Finite
  <1>8. Records(a) = {p}
    <2>1. Records(a) # {}
      BY <1>7, FS_EmptySet
    <2> QED
      BY <1>3, <2>1
  <1>9. PICK x : Holders(a) = {x}
    BY <1>7, Finite, FS_Singleton
  <1> QED
    BY <1>6, <1>8, <1>9 DEF Holders, Records

\* What is owed in a subnet, counted by client, is what goes from its bucket.
LEMMA OwedOnce ==
  ASSUME NEW owed \in SUBSET (Clients \X Addrs), NEW p, NEW B, IsFiniteSet(B),
         B \subseteq p, \A o \in owed : o[2] \in p => o[2] \in B,
         \A o, x \in owed : o[2] \in p /\ o[2] = x[2] => o[1] = x[1]
  PROVE  Cardinality(B \ {o[2] : o \in owed})
           = Cardinality(B) - Cardinality({o \in owed : o[2] \in p})
  <1> DEFINE O == {o \in owed : o[2] \in p}
  <1> DEFINE T == B \cap {o[2] : o \in owed}
  <1> DEFINE f == [a \in T |-> CHOOSE o \in O : o[2] = a]
  <1>1. \A a \in T : \E o \in O : o[2] = a
    OBVIOUS
  <1>2. \A a \in T : f[a] \in O /\ f[a][2] = a
    BY <1>1
  <1>3. \A o \in O : o[2] \in T /\ f[o[2]] = o
    <2> SUFFICES ASSUME NEW o \in O PROVE o[2] \in T /\ f[o[2]] = o
      OBVIOUS
    <2>1. o[2] \in T /\ o \in owed /\ owed \subseteq Clients \X Addrs
      OBVIOUS
    <2>2. f[o[2]] \in O /\ f[o[2]][2] = o[2]
      BY <1>2, <2>1
    <2>3. f[o[2]] \in Clients \X Addrs /\ o \in Clients \X Addrs /\ f[o[2]][1] = o[1]
      BY <2>1, <2>2
    <2> QED
      BY <2>1, <2>2, <2>3
  <1>4. ExistsBijection(T, O)
    <2>1. f \in [T -> O]
      BY <1>2
    <2> HIDE DEF f, T, O
    <2>2. \A a, b \in T : f[a] = f[b] => a = b
      BY <1>2
    <2>3. f \in Bijection(T, O)
      BY <1>3, <2>1, <2>2 DEF Bijection, Injection, IsInjective, Surjection
    <2> QED
      BY <2>3 DEF ExistsBijection
  <1>5. IsFiniteSet(T)
    BY FS_Subset
  <1>6. Cardinality(O) = Cardinality(T)
    BY <1>4, <1>5, FS_Bijection
  <1>7. Cardinality(B \ {o[2] : o \in owed}) = Cardinality(B) - Cardinality(T)
    BY FS_Difference
  <1> QED
    BY <1>6, <1>7

\* Freeing takes off every gauge what goes from its bucket.
LEMMA FreedCounted ==
  ASSUME SInv, HoldersRecorded, GInv, main = "serve",
         NEW owed \in SUBSET (Clients \X Addrs), FreeIPs(owed),
         \A o \in owed : o[2] \in Claims(o[1]), UNCHANGED <<cfg, saved, main>>
  PROVE  GInv'
  <1> DEFINE A == {o[2] : o \in owed}
  <1> DEFINE In(p) == {o \in owed : o[2] \in p}
  <1>1. /\ buckets' = [p \in Made |->
                         IF p \in Subnets THEN buckets[p] \ A ELSE buckets[p]]
        /\ gauge' = [p \in Prefixes |->
                       IF p \in Subnets THEN gauge[p] - Cardinality(In(p)) ELSE gauge[p]]
        /\ released \subseteq released'
    BY DEF FreeIPs
  <1>2. \A p : Cardinality(In(p)) \in Nat
    <2>1. IsFiniteSet(Clients \X Addrs)
      BY FS_Product, FileStoreAssumption
    <2>2. \A p : In(p) \in SUBSET (Clients \X Addrs)
      OBVIOUS
    <2> HIDE DEF In
    <2> QED
      BY <2>1, <2>2, FS_Subset, FS_CardinalityType
  <1> HIDE DEF In
  <1>3. Counted'
    BY <1>1, <1>2 DEF GInv, Counted
  <1>4. Subnets' = Subnets /\ Made' = Made
    BY <1>1 DEF Subnets, Made
  <1>5. ASSUME NEW p \in Subnets \cap Made, Undisturbed(p)'
        PROVE  gauge'[p] = Cardinality(buckets'[p])
    <2>1. Undisturbed(p)
      BY <1>1, <1>4, <1>5 DEF Undisturbed
    <2>2. gauge[p] = Cardinality(buckets[p])
      BY <2>1 DEF GInv, GaugeExact, Undisturbed
    <2>3. /\ \A o \in owed : o[2] \in p => o[2] \in buckets[p]
          /\ \A o, x \in owed : o[2] \in p /\ o[2] = x[2] => o[1] = x[1]
      BY <2>1, HeldOnce
    <2>4. IsFiniteSet(buckets[p]) /\ buckets[p] \subseteq p /\ p \in Prefixes
      BY FiniteBucket DEF SInv, Buckets
    <2>5. Cardinality(buckets[p] \ A) = Cardinality(buckets[p]) - Cardinality(In(p))
      BY <2>3, <2>4, OwedOnce DEF In
    <2> QED
      BY <1>1, <2>2, <2>4, <2>5
  <1> QED
    BY <1>3, <1>4, <1>5 DEF GInv, GaugeExact, Undisturbed

\* A new address moves its own gauge.
LEMMA AllocateCounted ==
  ASSUME SInv, GInv, NEW c \in Clients, AllocateIP(c)
  PROVE  GInv'
  <1> DEFINE s == cfg[h[c].n + 1]
  <1>1. PICK x \in FreeIn(s) :
          /\ buckets' = [buckets EXCEPT ![s] = @ \cup {x}]
          /\ gauge' = [gauge EXCEPT ![s] = @ + 1]
          /\ UNCHANGED <<cfg, saved, main, released>> /\ main = "serve"
    BY DEF AllocateIP, At
  <1>2. s \in Made /\ s \in Subnets /\ s \in Prefixes
    <2>1. h[c].n + 1 \in 1 .. saved /\ main = "serve"
      BY DEF AllocateIP, At, SInv, IInv, Types, Started
    <2> QED
      BY <2>1, SubnetsFacts DEF SInv, Subnets
  <1> HIDE DEF s
  <1>3. Counted'
    BY <1>1, <1>2 DEF GInv, Counted
  <1>4. Subnets' = Subnets /\ Made' = Made
    BY <1>1 DEF Subnets, Made
  <1>5. ASSUME NEW p \in Subnets \cap Made, Undisturbed(p)'
        PROVE  gauge'[p] = Cardinality(buckets'[p])
    <2>1. \A q \in Made \ {s} : buckets'[q] = buckets[q]
      BY <1>1 DEF Made
    <2>2. Undisturbed(p)
      BY <1>1, <1>2, <1>4, <1>5, <2>1 DEF Undisturbed
    <2>3. gauge[p] = Cardinality(buckets[p]) /\ p \in Prefixes
      BY <2>2 DEF GInv, GaugeExact, Undisturbed, SInv, Buckets
    <2>4. CASE p = s
      <3>1. buckets'[s] = buckets[s] \cup {x} /\ x \notin buckets[s]
        BY <1>1, <1>2 DEF Made, FreeIn
      <3>2. Cardinality(buckets[s] \cup {x}) = Cardinality(buckets[s]) + 1
        BY <1>2, <3>1, FiniteBucket, FS_AddElement
      <3> QED
        BY <1>1, <2>3, <2>4, <3>1, <3>2 DEF GInv, Counted
    <2>5. CASE p # s
      BY <1>1, <2>1, <2>3, <2>5 DEF GInv, Counted
    <2> QED
      BY <2>4, <2>5
  <1> QED
    BY <1>3, <1>4, <1>5 DEF GInv, GaugeExact, Undisturbed

\* What is counted is right.
LEMMA CountedRight ==
  ASSUME NEW bs, DOMAIN bs \subseteq Prefixes, \A p \in DOMAIN bs : bs[p] \in SUBSET p
  PROVE  /\ CountedIn(bs) \in [Prefixes -> Int]
         /\ \A p \in DOMAIN bs : CountedIn(bs)[p] = Cardinality(bs[p])
  <1>1. \A p \in DOMAIN bs : bs[p] \in SUBSET Addrs
    BY FileStoreAssumption
  <1>2. \A p \in DOMAIN bs : Cardinality(bs[p]) \in Nat
    BY <1>1, FS_Subset, FS_CardinalityType, FileStoreAssumption
  <1> QED
    BY <1>2 DEF CountedIn

LEMMA GaugeStep ==
  ASSUME SInv, HoldersRecorded, GInv, [Next]_vars
  PROVE  GInv'
  <1>1. SInv'
    BY NextSInv
  <1>2. CASE UNCHANGED <<buckets, gauge, cfg, saved, main, released>>
    BY <1>2 DEF GInv, GaugeExact, Counted, Subnets, Made
  <1>3. CASE gauge' = CountedIn(buckets')
    BY <1>1, <1>3, CountedRight DEF SInv, Buckets, Made, GInv, GaugeExact, Counted
  <1>4. CASE Restart
    BY <1>3, <1>4 DEF Restart, CountedIn
  <1>5. CASE SaveSubnetLock
    BY <1>3, <1>5 DEF SaveSubnetLock, GInv, Counted, CountedIn
  <1>6. CASE SaveSubnetCommit
    <2>1. /\ buckets' = [p \in Made \cup {cfg[saved]} |->
                           IF p \in Made THEN buckets[p] ELSE {}]
          /\ gauge' = gauge /\ gauge = CountedIn(buckets)
      BY <1>6 DEF SaveSubnetCommit, GInv, Counted
    <2>2. CountedIn(buckets') = CountedIn(buckets)
      BY <2>1, FS_EmptySet DEF CountedIn, Made
    <2> QED
      BY <1>3, <2>1, <2>2
  <1>7. CASE PurgeCommit
    <2>1. main = "serve"
      BY <1>7 DEF PurgeCommit, SInv, IInv, ServedWhenPurging
    <2> QED
      BY <1>7, <2>1, PurgeOwes, FreedCounted DEF SInv
  <1>8. ASSUME NEW c \in Clients, FreeIP(c) PROVE GInv'
    <2>1. main = "serve"
      BY <1>8 DEF FreeIP, At
    <2> QED
      BY <1>8, <2>1, FreeIPOwes, FreedCounted DEF SInv
  <1>9. ASSUME NEW c \in Clients, AllocateIP(c) PROVE GInv'
    BY <1>9, AllocateCounted
  <1> QED
    BY <1>2, <1>4, <1>5, <1>6, <1>7, <1>8, <1>9
    DEF Next, vars, Tick, PurgeBegin, PurgeFails, Lookup, Save, RenewFails, SaveFails,
        DeleteLease, DeleteFails, FreeFails, GiveUp

-----------------------------------------------------------------------------
\* What is left of TypeOK.

Rest ==
  /\ purge \in Nat \cup {None}
  /\ \A c \in Clients : h[c].n <= MaxSubnets
  /\ faults \in Nat
  /\ released \subseteq Addrs
  /\ lost \subseteq Prefixes \X Addrs

LEMMA RestStep ==
  ASSUME SInv, Rest, [Next]_vars
  PROVE  Rest'
  <1>1. /\ h \in [Clients -> [pc : Labels, ips : SUBSET Addrs, n : Nat]] /\ now \in Nat
        /\ cfg \in Configurations /\ Entries \subseteq Prefixes \X Addrs /\ MaxSubnets \in Nat
    BY FileStoreAssumption DEF SInv, IInv, Types, Started, Entries
  <1>2. CASE UNCHANGED <<purge, h, faults, released, lost>>
    BY <1>2 DEF Rest
  <1>3. CASE Restart
    BY <1>1, <1>3 DEF Restart, Rest, Idle, Abandon, Fault
  <1>4. CASE PurgeBegin \/ PurgeFails
    BY <1>1, <1>4 DEF PurgeBegin, PurgeFails, Rest
  <1>5. ASSUME NEW owed \in SUBSET (Clients \X Addrs), FreeIPs(owed)
        PROVE  released' \subseteq Addrs /\ lost' \subseteq Prefixes \X Addrs
    BY <1>1, <1>5 DEF FreeIPs, Rest
  <1>6. CASE PurgeCommit
    BY <1>5, <1>6, PurgeOwes DEF PurgeCommit, Rest, SInv
  <1>7. ASSUME NEW c \in Clients, NEW pc, NEW ips, NEW n, Work(c, pc, ips, n),
               n <= MaxSubnets
        PROVE  \A d \in Clients : h'[d].n <= MaxSubnets
    BY <1>1, <1>7 DEF Work, Rest
  <1>8. ASSUME NEW c \in Clients, FreeIP(c) PROVE Rest'
    <2>1. \E pc, ips : Work(c, pc, ips, h[c].n) \/ Work(c, pc, ips, 0)
      BY <1>8 DEF FreeIP, Dropped
    <2>2. h[c].n <= MaxSubnets /\ 0 <= MaxSubnets
      BY <1>1 DEF Rest
    <2>3. \A d \in Clients : h'[d].n <= MaxSubnets
      BY <1>7, <2>1, <2>2
    <2> QED
      BY <1>5, <1>8, <2>3, FreeIPOwes DEF FreeIP, Rest, SInv
  <1>9. ASSUME NEW c \in Clients, AllocateIP(c) PROVE Rest'
    <2>1. Len(cfg) <= MaxSubnets
      BY <1>1 DEF Configurations
    <2>2. /\ \E ips : Work(c, "alloc", ips, h[c].n + 1)
          /\ h[c].n < Len(cfg) /\ UNCHANGED <<purge, faults, released, lost>>
      BY <1>9 DEF AllocateIP
    <2>3. h[c].n + 1 <= MaxSubnets
      BY <1>1, <2>1, <2>2, ConfigurationFacts
    <2> QED
      BY <1>7, <2>2, <2>3 DEF Rest
  <1>10. ASSUME NEW c \in Clients,
                \/ Lookup(c) \/ Save(c) \/ RenewFails(c) \/ SaveFails(c)
                \/ DeleteLease(c) \/ DeleteFails(c) \/ FreeFails(c) \/ GiveUp(c)
         PROVE  Rest'
    <2>1. purge' = purge /\ released' = released
      BY <1>10 DEF Lookup, Save, RenewFails, SaveFails, DeleteLease, DeleteFails,
                   FreeFails, GiveUp
    <2>2. \E pc, ips : Work(c, pc, ips, h[c].n) \/ Work(c, pc, ips, 0)
      BY <1>10 DEF Lookup, Save, RenewFails, SaveFails, DeleteLease, DeleteFails,
                   FreeFails, Dropped, GiveUp, Work, Idle
    <2>3. faults' \in Nat
      BY <1>10 DEF Lookup, Save, RenewFails, SaveFails, DeleteLease, DeleteFails,
                   FreeFails, GiveUp, Fault, Rest
    <2>4. lost' \subseteq Prefixes \X Addrs
      BY <1>1, <1>10 DEF Lookup, Save, RenewFails, SaveFails, DeleteLease, DeleteFails,
                         FreeFails, GiveUp, Abandon, Rest
    <2>5. h[c].n <= MaxSubnets /\ 0 <= MaxSubnets
      BY <1>1 DEF Rest
    <2>6. \A d \in Clients : h'[d].n <= MaxSubnets
      BY <1>7, <2>2, <2>5
    <2> QED
      BY <2>1, <2>3, <2>4, <2>6 DEF Rest
  <1> QED
    BY <1>2, <1>3, <1>4, <1>6, <1>8, <1>9, <1>10
    DEF Next, vars, Tick, SaveSubnetLock, SaveSubnetCommit

-----------------------------------------------------------------------------

\* For any clients, addresses, nested prefixes and accepted configurations,
\* over any number of restarts: an address is held for no more clients than
\* there are buckets that record it, unless it was freed for a client that
\* still held it (store.go:413-603).
THEOREM HoldersAreRecorded == Spec => []HoldersRecorded
  BY InitSInv, NextSInv, InitHolders, HoldersStep, PTL DEF Spec

\* Over any number of restarts the gauge of a configured subnet is the number
\* of its allocated addresses, with the exceptions that GaugeExact names
\* (metrics.go:87, 118).
THEOREM GaugesAreExact == Spec => []GaugeExact
  <1>1. Init => GInv
    BY InitSInv, CountedRight DEF Init, SInv, Buckets, Made, GInv, GaugeExact, Counted
  <1>2. GInv => GaugeExact
    BY DEF GInv
  <1> QED
    BY <1>1, <1>2, InitSInv, NextSInv, InitHolders, HoldersStep, GaugeStep, PTL DEF Spec

\* For any clients, addresses, prefixes and configurations: nothing leaves its
\* type; a bucket holds addresses of its own subnet only (store.go:549).
THEOREM FileStoreTyped == Spec => []TypeOK
  <1>1. Init => GInv /\ Rest
    BY InitSInv, CountedRight, FileStoreAssumption
    DEF Init, SInv, Buckets, Made, GInv, GaugeExact, Counted, Rest, Idle
  <1>2. SInv /\ GInv /\ Rest => TypeOK
    <2> SUFFICES ASSUME SInv, GInv, Rest PROVE TypeOK
      OBVIOUS
    <2>1. saved \in 0 .. Len(cfg)
      BY ConfigurationFacts DEF SInv, Started
    <2>2. h \in [Clients -> [pc : Labels, ips : SUBSET Addrs, n : 0 .. MaxSubnets]]
      BY FileStoreAssumption DEF SInv, IInv, Types, Rest
    <2> QED
      BY <2>1, <2>2
      DEF SInv, IInv, Types, Labels, Buckets, Started, GInv, Counted, Rest, TypeOK
  <1> QED
    BY <1>1, <1>2, InitSInv, NextSInv, InitHolders, HoldersStep, GaugeStep, RestStep,
       PTL DEF Spec

=============================================================================
