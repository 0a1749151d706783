--------------------------- MODULE FileStoreProofs ---------------------------
(***************************************************************************)
(* What the file keeps, for any clients, addresses and prefixes and any    *)
(* number of crashes and failing writes: an address nobody holds is        *)
(* recorded only where one of these, or a change of the subnets, left it.  *)
(* And the two locks are never waited for in a circle.                     *)
(***************************************************************************)
EXTENDS FileStore, TLAPS

Labels == {"idle", "alloc", "renew", "delete", "free", "rollback"}

\* The part of TypeOK that the argument needs.
Types ==
  /\ leases \in [Clients -> [ips : SUBSET Addrs, exp : Nat]]
  /\ h \in [Clients -> [pc : Labels, ips : SUBSET Addrs, n : Nat]]
  /\ now \in Nat
  /\ cfg \in Seq(Prefixes)

\* The handlers that have addresses to save or to free.
Unleased(c) == h[c].pc \in {"alloc", "free", "rollback"}

\* The addresses that c must still save or free: those in its handler's hands,
\* even if a lease that could not be deleted names others; if there are none,
\* those its lease names, of which a handler may have a copy.
Firm(c) == IF Unleased(c) THEN h[c].ips ELSE leases[c].ips

\* A copy is of the lease in the file, unless that was purged.
Copies ==
  \A c \in Clients :
    h[c].pc \in {"renew", "delete"} => leases[c].ips \in {{}, h[c].ips}

Accounted == \A e \in Entries : e \in lost \/ \E c \in Clients : e[2] \in Firm(c)

\* SaveSubnet never waits for the writer lock, with s.mu in its hands, while a
\* Purge has the writer lock (store.go:466, 517).
NoLockCycle == ~(main = "commit" /\ purge # None)

ServedWhenPurging == purge # None => main = "serve"

IInv == Types /\ Copies /\ Accounted /\ ServedWhenPurging

-----------------------------------------------------------------------------

LEMMA ConfigurationsAreSequences == Configurations \subseteq Seq(Prefixes)
  BY FileStoreAssumption DEF Configurations

LEMMA InitIInv == Init => IInv
  <1> SUFFICES ASSUME Init PROVE IInv
    OBVIOUS
  <1>1. Types
    BY ConfigurationsAreSequences DEF Init, Types, Labels, NoLease, Idle
  <1>2. Copies
    BY DEF Init, Copies, Idle
  <1>3. Entries = {}
    BY DEF Init, Entries, Made
  <1> QED
    BY <1>1, <1>2, <1>3 DEF Init, IInv, Accounted, ServedWhenPurging

\* A step that keeps the file's addresses, and whose firm claims only grow.
LEMMA ClaimsGrow ==
  ASSUME Accounted, Entries' \subseteq Entries, lost \subseteq lost',
         \A c \in Clients : Firm(c) \subseteq Firm(c)'
  PROVE  Accounted'
  BY DEF Accounted

\* Freeing addresses, while their holders let go of them and of no other.
LEMMA FreedAccounted ==
  ASSUME Accounted, NEW owed \in SUBSET (Clients \X Addrs), FreeIPs(owed),
         UNCHANGED <<cfg, saved>>,
         \A c \in Clients : Firm(c) \ {o[2] : o \in owed} \subseteq Firm(c)'
  PROVE  Accounted'
  <1> DEFINE A == {o[2] : o \in owed}
  <1> SUFFICES ASSUME NEW e \in Entries', e \notin lost'
               PROVE  \E c \in Clients : e[2] \in Firm(c)'
    BY DEF Accounted
  <1>1. /\ buckets' = [q \in Made |->
                         IF q \in Subnets THEN buckets[q] \ A ELSE buckets[q]]
        /\ lost' = {x \in lost : x[1] \notin Subnets \/ x[2] \notin A}
                     \cup {x \in Entries : x[1] \notin Subnets /\ x[2] \in A}
    BY DEF FreeIPs
  <1>2. e \in Prefixes \X Addrs /\ e[1] \in Made /\ e[2] \in buckets'[e[1]]
    BY <1>1 DEF Entries, Made
  <1>3. e \in Entries
    BY <1>1, <1>2 DEF Entries
  <1>4. e \notin lost /\ e[2] \notin A
    BY <1>1, <1>2, <1>3
  <1> QED
    BY <1>3, <1>4 DEF Accounted

-----------------------------------------------------------------------------
\* One lemma for each group of actions.

LEMMA StartIInv ==
  ASSUME IInv, Tick \/ SaveSubnetLock \/ SaveSubnetCommit
               \/ PurgeBegin \/ PurgeFails
  PROVE  IInv'
  <1>1. UNCHANGED <<leases, h, lost, cfg>> /\ now' \in Nat
    BY DEF IInv, Types, Tick, SaveSubnetLock, SaveSubnetCommit, PurgeBegin,
           PurgeFails
  <1>2. Types' /\ Copies'
    BY <1>1 DEF IInv, Types, Copies, Unleased
  <1>3. Entries' \subseteq Entries
    <2>1. CASE SaveSubnetCommit
      <3>1. buckets' = [q \in Made \cup {cfg[saved]} |->
                          IF q \in Made THEN buckets[q] ELSE {}]
        BY <2>1 DEF SaveSubnetCommit
      <3> QED
        BY <3>1 DEF Entries, Made
    <2>2. CASE Tick \/ SaveSubnetLock \/ PurgeBegin \/ PurgeFails
      <3>1. buckets' = buckets
        BY <2>2 DEF Tick, SaveSubnetLock, PurgeBegin, PurgeFails
      <3> QED
        BY <3>1 DEF Entries, Made
    <2> QED
      BY <2>1, <2>2
  <1>4. Accounted'
    BY <1>1, <1>3, ClaimsGrow DEF IInv, Firm, Unleased
  <1>5. ServedWhenPurging'
    BY DEF IInv, ServedWhenPurging, Tick, SaveSubnetLock, SaveSubnetCommit,
           WriterFree, PurgeBegin, PurgeFails
  <1> QED
    BY <1>2, <1>4, <1>5 DEF IInv

\* What the handlers had not saved is lost.
LEMMA RestartIInv == ASSUME IInv, Restart PROVE IInv'
  <1>1. /\ UNCHANGED <<leases, buckets, now>>
        /\ h' = [c \in Clients |-> Idle]
        /\ lost' = lost \cup {e \in Entries : e[2] \in Unsaved}
        /\ purge' = None /\ cfg' \in Configurations
    BY DEF Restart, Abandon
  <1>2. Types'
    BY <1>1, ConfigurationsAreSequences DEF IInv, Types, Labels, Idle
  <1>3. \A c \in Clients : h'[c] = Idle
    BY <1>1
  <1>4. Copies'
    BY <1>3 DEF Copies, Idle
  <1>5. Accounted'
    <2> SUFFICES ASSUME NEW e \in Entries, e \notin lost'
                 PROVE  \E c \in Clients : e[2] \in Firm(c)'
      BY <1>1 DEF Accounted, Entries, Made
    <2>1. e \notin lost /\ e[2] \notin Unsaved
      BY <1>1
    <2>2. PICK c \in Clients : e[2] \in Firm(c)
      BY <2>1 DEF IInv, Accounted
    <2>3. e[2] \in leases[c].ips
      BY <2>1, <2>2 DEF Firm, Unleased, Unsaved
    <2> QED
      BY <1>1, <1>3, <2>3 DEF Firm, Unleased, Idle
  <1> QED
    BY <1>1, <1>2, <1>4, <1>5 DEF IInv, ServedWhenPurging

\* All the addresses of the leases that Purge deletes are freed with them.
LEMMA PurgeCommitIInv == ASSUME IInv, PurgeCommit PROVE IInv'
  <1> DEFINE X == ExpiredClients(purge)
  <1> DEFINE owed == {o \in Clients \X Addrs : o[1] \in X /\ o[2] \in leases[o[1]].ips}
  <1>1. /\ leases' = [c \in Clients |-> IF c \in X THEN NoLease ELSE leases[c]]
        /\ FreeIPs(owed)
        /\ UNCHANGED <<h, cfg, saved, main, now>> /\ purge' = None
    BY DEF PurgeCommit
  <1>2. Types'
    BY <1>1 DEF IInv, Types, NoLease
  <1>3. Copies'
    BY <1>1 DEF IInv, Copies, NoLease
  <1>4. ASSUME NEW c \in Clients PROVE Firm(c) \ {o[2] : o \in owed} \subseteq Firm(c)'
    <2> SUFFICES ASSUME NEW a \in Firm(c), a \notin Firm(c)'
                 PROVE  \E o \in owed : o[2] = a
      OBVIOUS
    <2>1. a \in leases[c].ips /\ c \in X /\ a \in Addrs
      BY <1>1 DEF IInv, Types, Firm, Unleased
    <2>2. <<c, a>> \in owed /\ <<c, a>>[2] = a
      BY <2>1
    <2> HIDE DEF owed
    <2> QED
      BY <2>2
  <1>5. Accounted'
    <2>1. owed \in SUBSET (Clients \X Addrs)
      OBVIOUS
    <2> HIDE DEF owed
    <2> QED
      BY <2>1, <1>1, <1>4, FreedAccounted DEF IInv
  <1> QED
    BY <1>1, <1>2, <1>3, <1>5 DEF IInv, ServedWhenPurging

\* A handler's own steps: what its new state and its new lease must be for
\* the file to stay accounted for, but for the addresses A that are freed.
LEMMA WorkIInv ==
  ASSUME IInv, NEW c \in Clients, NEW A,
         h' = [h EXCEPT ![c] = h'[c]], leases' = [leases EXCEPT ![c] = leases'[c]],
         h'[c] \in [pc : Labels, ips : SUBSET Addrs, n : Nat],
         leases'[c] \in [ips : SUBSET Addrs, exp : Nat],
         UNCHANGED <<cfg, main, purge, now>>,
         h'[c].pc \in {"renew", "delete"} => leases'[c].ips \in {{}, h'[c].ips},
         Firm(c) \ A \subseteq Firm(c)'
  PROVE  /\ Types' /\ Copies' /\ ServedWhenPurging'
         /\ \A d \in Clients : Firm(d) \ A \subseteq Firm(d)'
  <1>1. \A d \in Clients \ {c} : h'[d] = h[d] /\ leases'[d] = leases[d]
    BY DEF IInv, Types
  <1>2. Types' /\ ServedWhenPurging'
    BY DEF IInv, Types, ServedWhenPurging
  <1>3. Copies'
    BY <1>1 DEF IInv, Copies
  <1>4. \A d \in Clients \ {c} : Firm(d)' = Firm(d)
    BY <1>1 DEF Firm, Unleased
  <1> QED
    BY <1>2, <1>3, <1>4

\* Work writes the handler's whole state.
LEMMA WorkFacts ==
  ASSUME Types, NEW c \in Clients, NEW pc, NEW ips, NEW n, Work(c, pc, ips, n)
  PROVE  /\ h'[c] = [pc |-> pc, ips |-> ips, n |-> n]
         /\ h' = [h EXCEPT ![c] = h'[c]]
  BY DEF Types, Work

\* What is known of a handler and of its client's lease.
LEMMA HandlerFacts ==
  ASSUME IInv, NEW c \in Clients
  PROVE  /\ h[c] \in [pc : Labels, ips : SUBSET Addrs, n : Nat]
         /\ leases[c] \in [ips : SUBSET Addrs, exp : Nat]
         /\ leases = [leases EXCEPT ![c] = leases[c]]
         /\ h[c].pc \in {"alloc", "free", "rollback"} => Firm(c) = h[c].ips
         /\ h[c].pc \notin {"alloc", "free", "rollback"} => Firm(c) = leases[c].ips
         /\ h[c].pc \in {"renew", "delete"} => leases[c].ips \subseteq h[c].ips
  BY DEF IInv, Types, Copies, Unleased, Firm

\* A handler that is done with an address still has the others.
LEMMA DroppedFacts ==
  ASSUME IInv, NEW c \in Clients, NEW a \in h[c].ips,
         h[c].pc \in {"free", "rollback"}, Dropped(c, a)
  PROVE  /\ h' = [h EXCEPT ![c] = h'[c]]
         /\ h'[c] \in [pc : Labels, ips : SUBSET Addrs, n : Nat]
         /\ h'[c].ips = h[c].ips \ {a}
         /\ h'[c].pc \in {"alloc", "idle", "free", "rollback"}
         /\ h'[c].pc = "idle" => h'[c].ips = {}
  <1>1. h[c] \in [pc : Labels, ips : SUBSET Addrs, n : Nat]
    BY HandlerFacts
  <1>2. CASE h[c].ips # {a}
    <2>1. Work(c, h[c].pc, h[c].ips \ {a}, h[c].n)
      BY <1>2 DEF Dropped
    <2>2. /\ h'[c] = [pc |-> h[c].pc, ips |-> h[c].ips \ {a}, n |-> h[c].n]
          /\ h' = [h EXCEPT ![c] = h'[c]]
      BY <2>1, WorkFacts DEF IInv
    <2> QED
      BY <2>2, <1>1
  <1>3. CASE h[c].ips = {a}
    <2> DEFINE pc == IF h[c].pc = "free" THEN "alloc" ELSE "idle"
    <2>1. Work(c, pc, {}, 0)
      BY <1>3 DEF Dropped
    <2>2. pc \in {"alloc", "idle"}
      OBVIOUS
    <2> HIDE DEF pc
    <2>3. h'[c] = [pc |-> pc, ips |-> {}, n |-> 0] /\ h' = [h EXCEPT ![c] = h'[c]]
      BY <2>1, WorkFacts DEF IInv
    <2> QED
      BY <1>3, <2>2, <2>3 DEF Labels
  <1> QED
    BY <1>2, <1>3

\* So all it has to free but this address is still in its hands.
LEMMA DroppedIInv ==
  ASSUME IInv, NEW c \in Clients, NEW a \in h[c].ips,
         h[c].pc \in {"free", "rollback"}, Dropped(c, a),
         UNCHANGED <<leases, cfg, main, purge, now>>
  PROVE  /\ Types' /\ Copies' /\ ServedWhenPurging'
         /\ \A d \in Clients : Firm(d) \ {a} \subseteq Firm(d)'
  <1>1. /\ leases[c] \in [ips : SUBSET Addrs, exp : Nat]
        /\ leases' = [leases EXCEPT ![c] = leases'[c]]
        /\ leases'[c] = leases[c] /\ Firm(c) = h[c].ips
    BY HandlerFacts
  <1>2. Firm(c) \ {a} \subseteq Firm(c)'
    BY <1>1, DroppedFacts DEF Firm, Unleased
  <1> QED
    BY <1>1, <1>2, DroppedFacts, WorkIInv

\* A handler frees an address that only it still answers for.
LEMMA FreeIPIInv ==
  ASSUME IInv, NEW c \in Clients, FreeIP(c)
  PROVE  IInv'
  <1>1. PICK a \in h[c].ips : Dropped(c, a) /\ UNCHANGED leases /\ FreeIPs({<<c, a>>})
    BY DEF FreeIP
  <1>2. /\ UNCHANGED <<cfg, saved, main, purge, now>>
        /\ h[c].pc \in {"free", "rollback"}
    BY DEF FreeIP, At
  <1>3. /\ Types' /\ Copies' /\ ServedWhenPurging'
        /\ \A d \in Clients : Firm(d) \ {a} \subseteq Firm(d)'
    BY <1>1, <1>2, DroppedIInv
  <1>4. Accounted'
    <2>1. a \in Addrs
      BY <1>1 DEF IInv, Types
    <2>2. {<<c, a>>} \in SUBSET (Clients \X Addrs) /\ {o[2] : o \in {<<c, a>>}} = {a}
      BY <2>1
    <2> QED
      BY <2>2, <1>1, <1>2, <1>3, FreedAccounted DEF IInv
  <1> QED
    BY <1>3, <1>4 DEF IInv

\* A handler whose write fails goes back to a lease that the file may still
\* hold, and forgets what it had in its hands.
LEMMA AbandonIInv ==
  ASSUME IInv, NEW c \in Clients, SaveFails(c) \/ FreeFails(c)
  PROVE  IInv'
  <1>1. /\ UNCHANGED <<leases, buckets, cfg, main, purge, now>>
        /\ h[c].pc \in {"alloc", "free", "rollback"}
    BY DEF SaveFails, FreeFails, At
  <1>2. PICK A \in SUBSET h[c].ips :
          /\ Abandon(A)
          /\ Types' /\ Copies' /\ ServedWhenPurging'
          /\ \A d \in Clients : Firm(d) \ A \subseteq Firm(d)'
    <2>1. CASE h' = [h EXCEPT ![c] = Idle] /\ Abandon(h[c].ips)
      <3>1. /\ leases[c] \in [ips : SUBSET Addrs, exp : Nat]
            /\ leases' = [leases EXCEPT ![c] = leases'[c]]
            /\ leases'[c] = leases[c] /\ Firm(c) = h[c].ips
        BY <1>1, HandlerFacts
      <3>2. /\ h'[c] = Idle /\ h' = [h EXCEPT ![c] = h'[c]]
            /\ Idle \in [pc : Labels, ips : SUBSET Addrs, n : Nat]
            /\ Idle.pc = "idle"
        BY <2>1 DEF IInv, Types, Idle, Labels
      <3>3. Firm(c) \ h[c].ips \subseteq Firm(c)'
        BY <3>1
      <3>4. /\ Types' /\ Copies' /\ ServedWhenPurging'
            /\ \A d \in Clients : Firm(d) \ h[c].ips \subseteq Firm(d)'
        BY <1>1, <3>1, <3>2, <3>3, WorkIInv
      <3> QED
        BY <2>1, <3>4
    <2>2. CASE \E a \in h[c].ips : h[c].pc = "free" /\ Dropped(c, a) /\ Abandon({a})
      <3>1. PICK a \in h[c].ips : h[c].pc = "free" /\ Dropped(c, a) /\ Abandon({a})
        BY <2>2
      <3>2. /\ Types' /\ Copies' /\ ServedWhenPurging'
            /\ \A d \in Clients : Firm(d) \ {a} \subseteq Firm(d)'
        BY <1>1, <3>1, DroppedIInv
      <3> QED
        BY <3>1, <3>2
    <2> QED
      BY <2>1, <2>2 DEF SaveFails, FreeFails, At
  <1>3. Accounted'
    <2>1. lost' = lost \cup {e \in Entries : e[2] \in A} /\ Entries' = Entries
      BY <1>1, <1>2 DEF Abandon, Entries, Made
    <2> QED
      BY <2>1, <1>2 DEF IInv, Accounted
  <1> QED
    BY <1>2, <1>3 DEF IInv

\* The steps that leave the buckets alone.
LEMMA HandlerIInv ==
  ASSUME IInv, NEW c \in Clients,
         \/ Lookup(c) \/ Save(c) \/ RenewFails(c)
         \/ DeleteLease(c) \/ DeleteFails(c) \/ GiveUp(c)
  PROVE  IInv'
  <1>1. UNCHANGED <<buckets, cfg, main, purge, now, lost>>
    BY DEF Lookup, Save, RenewFails, DeleteLease, DeleteFails, GiveUp
  <1>2. /\ h[c] \in [pc : Labels, ips : SUBSET Addrs, n : Nat]
        /\ leases[c] \in [ips : SUBSET Addrs, exp : Nat]
        /\ leases = [leases EXCEPT ![c] = leases[c]]
    BY HandlerFacts
  <1>3. /\ h' = [h EXCEPT ![c] = h'[c]]
        /\ leases' = [leases EXCEPT ![c] = leases'[c]]
        /\ h'[c] \in [pc : Labels, ips : SUBSET Addrs, n : Nat]
        /\ leases'[c] \in [ips : SUBSET Addrs, exp : Nat]
        /\ h'[c].pc \in {"renew", "delete"} => leases'[c].ips \in {{}, h'[c].ips}
        /\ Firm(c) \subseteq Firm(c)'
    <2>1. CASE Lookup(c)
      <3> DEFINE pc == IF Expired(leases[c], now) THEN "delete" ELSE "renew"
      <3>1. leases' = leases /\ h[c].pc = "idle"
        BY <2>1 DEF Lookup, At
      <3>2. \/ Work(c, "alloc", {}, 0) /\ leases[c] = NoLease
            \/ Work(c, pc, leases[c].ips, 0)
        BY <2>1 DEF Lookup
      <3>3. pc \in {"renew", "delete"}
        OBVIOUS
      <3> HIDE DEF pc
      <3>4. /\ h' = [h EXCEPT ![c] = h'[c]]
            /\ \/ /\ h'[c] = [pc |-> "alloc", ips |-> {}, n |-> 0]
                  /\ leases[c] = NoLease
               \/ h'[c] = [pc |-> pc, ips |-> leases[c].ips, n |-> 0]
        BY <3>2, WorkFacts DEF IInv
      <3>5. h'[c] \in [pc : Labels, ips : SUBSET Addrs, n : Nat]
        BY <3>3, <3>4, <1>2 DEF Labels
      <3>6. Firm(c) = leases[c].ips
        BY <3>1, HandlerFacts
      <3>7. Unleased(c)' => leases[c].ips = {}
        BY <3>3, <3>4 DEF Unleased, NoLease
      <3> QED
        BY <3>1, <3>3, <3>4, <3>5, <3>6, <3>7, <1>2 DEF Firm, Unleased
    <2>2. CASE Save(c)
      <3> DEFINE l == [ips |-> h[c].ips, exp |-> now + LeaseDuration]
      <3>1. /\ leases' = [leases EXCEPT ![c] = l]
            /\ h' = [h EXCEPT ![c] = Idle]
            /\ h[c].pc \in {"renew", "alloc"}
        BY <2>2 DEF Save, At
      <3>2. Firm(c) \subseteq h[c].ips
        BY <3>1, HandlerFacts
      <3>3. l \in [ips : SUBSET Addrs, exp : Nat]
        BY <1>2, FileStoreAssumption DEF IInv, Types
      <3>4. leases'[c] = l /\ h'[c] = Idle
        BY <3>1 DEF IInv, Types
      <3>5. l.ips = h[c].ips
        OBVIOUS
      <3> HIDE DEF l
      <3>6. Firm(c)' = h[c].ips /\ ~Unleased(c)'
        BY <3>4, <3>5 DEF Firm, Unleased, Idle
      <3>7. Idle \in [pc : Labels, ips : SUBSET Addrs, n : Nat] /\ Idle.pc = "idle"
        BY DEF Idle, Labels
      <3> QED
        BY <3>1, <3>2, <3>3, <3>4, <3>6, <3>7
    <2>3. CASE DeleteLease(c) \/ DeleteFails(c)
      <3>1. /\ leases' = leases \/ leases' = [leases EXCEPT ![c] = NoLease]
            /\ Work(c, "free", h[c].ips, h[c].n) /\ h[c].pc = "delete"
        BY <2>3 DEF DeleteLease, DeleteFails, At
      <3>2. Firm(c) \subseteq h[c].ips
        BY <3>1, HandlerFacts
      <3>3. /\ h' = [h EXCEPT ![c] = h'[c]]
            /\ h'[c] = [pc |-> "free", ips |-> h[c].ips, n |-> h[c].n]
        BY <3>1, WorkFacts DEF IInv
      <3>4. Firm(c)' = h[c].ips
        BY <3>3 DEF Firm, Unleased
      <3>5. h'[c] \in [pc : Labels, ips : SUBSET Addrs, n : Nat]
        BY <3>3, <1>2 DEF Labels
      <3>6. /\ leases' = [leases EXCEPT ![c] = leases'[c]]
            /\ leases'[c] \in [ips : SUBSET Addrs, exp : Nat]
        BY <3>1, <1>2 DEF NoLease, IInv, Types
      <3> QED
        BY <3>2, <3>3, <3>4, <3>5, <3>6
    <2>4. CASE GiveUp(c)
      <3> DEFINE pc == IF h[c].ips = {} THEN "idle" ELSE "rollback"
      <3> DEFINE n == IF h[c].ips = {} THEN 0 ELSE h[c].n
      <3>1. h[c].pc = "alloc" /\ leases' = leases /\ Work(c, pc, h[c].ips, n)
        BY <2>4 DEF GiveUp, At
      <3>2. Firm(c) = h[c].ips
        BY <3>1, HandlerFacts
      <3>3. pc \in {"idle", "rollback"} /\ (pc = "idle" => h[c].ips = {}) /\ n \in Nat
        BY <1>2
      <3> HIDE DEF pc, n
      <3>4. /\ h' = [h EXCEPT ![c] = h'[c]]
            /\ h'[c] = [pc |-> pc, ips |-> h[c].ips, n |-> n]
        BY <3>1, WorkFacts DEF IInv
      <3> QED
        BY <3>1, <3>2, <3>3, <3>4, <1>2 DEF Firm, Unleased, Labels
    <2>5. CASE RenewFails(c)
      <3>1. /\ h' = [h EXCEPT ![c] = Idle] /\ leases' = leases
            /\ h[c].pc = "renew"
        BY <2>5 DEF RenewFails, At
      <3>2. /\ h'[c] = Idle
            /\ Idle \in [pc : Labels, ips : SUBSET Addrs, n : Nat]
            /\ Idle.pc = "idle"
        BY <3>1 DEF IInv, Types, Idle, Labels
      <3> QED
        BY <3>1, <3>2, <1>2 DEF Firm, Unleased
    <2> QED
      BY <2>1, <2>2, <2>3, <2>4, <2>5
  <1>4. /\ Types' /\ Copies' /\ ServedWhenPurging'
        /\ \A d \in Clients : Firm(d) \ {} \subseteq Firm(d)'
    BY <1>1, <1>3, WorkIInv
  <1>5. Accounted'
    BY <1>1, <1>4, ClaimsGrow DEF IInv, Entries, Made
  <1> QED
    BY <1>4, <1>5 DEF IInv

\* What is newly recorded is in the hands of the handler that allocated it.
LEMMA AllocateIPIInv ==
  ASSUME IInv, NEW c \in Clients, AllocateIP(c)
  PROVE  IInv'
  <1> DEFINE s == cfg[h[c].n + 1]
  <1>1. PICK a \in FreeIn(s) :
          /\ buckets' = [buckets EXCEPT ![s] = @ \cup {a}]
          /\ Work(c, "alloc", h[c].ips \cup {a}, h[c].n + 1)
    BY DEF AllocateIP
  <1>2. /\ UNCHANGED <<leases, cfg, main, purge, now, lost>>
        /\ h[c].pc = "alloc" /\ h[c].n < Len(cfg)
    BY DEF AllocateIP, At
  <1>3. /\ h[c] \in [pc : Labels, ips : SUBSET Addrs, n : Nat]
        /\ leases[c] \in [ips : SUBSET Addrs, exp : Nat]
        /\ leases' = [leases EXCEPT ![c] = leases[c]]
        /\ Firm(c) = h[c].ips
    BY <1>2, HandlerFacts
  <1>4. s \in Prefixes
    BY <1>2, <1>3 DEF IInv, Types
  <1>5. a \in Addrs
    BY <1>4, FileStoreAssumption DEF FreeIn
  <1>6. /\ h'[c] = [pc |-> "alloc", ips |-> h[c].ips \cup {a}, n |-> h[c].n + 1]
        /\ h' = [h EXCEPT ![c] = h'[c]]
    BY <1>1, WorkFacts DEF IInv
  <1>7. Firm(c)' = h[c].ips \cup {a} /\ leases'[c] = leases[c]
    BY <1>2, <1>3, <1>6 DEF Firm, Unleased
  <1>9. /\ Types' /\ Copies' /\ ServedWhenPurging'
        /\ \A d \in Clients : Firm(d) \ {} \subseteq Firm(d)'
    <2>1. h'[c] \in [pc : Labels, ips : SUBSET Addrs, n : Nat]
      BY <1>3, <1>5, <1>6 DEF Labels
    <2>2. Firm(c) \ {} \subseteq Firm(c)'
      BY <1>3, <1>7
    <2>3. h'[c].pc = "alloc"
      BY <1>6
    <2> QED
      BY <2>1, <2>2, <2>3, <1>2, <1>3, <1>6, <1>7, WorkIInv
  <1>8. Accounted'
    <2> SUFFICES ASSUME NEW e \in Entries'
                 PROVE  e \in lost' \/ \E d \in Clients : e[2] \in Firm(d)'
      BY DEF Accounted
    <2>1. e \in Entries \/ e[2] = a
      BY <1>1 DEF Entries, Made
    <2> QED
      BY <2>1, <1>2, <1>7, <1>9 DEF IInv, Accounted
  <1> QED
    BY <1>8, <1>9 DEF IInv

LEMMA NextIInv == ASSUME IInv, [Next]_vars PROVE IInv'
  <1>1. CASE UNCHANGED vars
    BY <1>1
    DEF vars, IInv, Types, Copies, Unleased, Accounted, Firm, Entries, Made,
        ServedWhenPurging
  <1> QED
    BY <1>1, StartIInv, RestartIInv, PurgeCommitIInv, FreeIPIInv, AbandonIInv,
       HandlerIInv, AllocateIPIInv
    DEF Next

-----------------------------------------------------------------------------

\* For any clients, addresses, prefixes and configurations, and any number of
\* crashes and failing writes: an address that nobody holds is recorded only
\* where a crash, a lease that could not be saved (handler.go:175), a free that
\* failed (handler.go:129, ipallocator.go:149), or a free while its subnet was
\* not configured (store.go:469-484), left it.
THEOREM OnlyKnownLeaks == Spec => []LeaksKnown
  <1>1. IInv => LeaksKnown
    BY DEF IInv, Accounted, LeaksKnown, Firm, Claims
  <1> QED
    BY <1>1, InitIInv, NextIInv, PTL DEF Spec

\* The start-up and Purge take s.mu and the writer lock in opposite orders,
\* and never at the same time (store.go:466, 517).
THEOREM LocksNotInACircle == Spec => []NoLockCycle
  <1>1. IInv => NoLockCycle
    BY DEF IInv, ServedWhenPurging, NoLockCycle
  <1> QED
    BY <1>1, InitIInv, NextIInv, PTL DEF Spec

\* What config.Parse accepts: two subnets of one configuration share no
\* address, which is why one subnet answers for each.
THEOREM SubnetsApart ==
  ASSUME NEW subnets \in Configurations,
         NEW j \in DOMAIN subnets, NEW k \in DOMAIN subnets, j # k
  PROVE  subnets[j] \cap subnets[k] = {}
  <1>1. subnets[j] \in Prefixes /\ subnets[k] \in Prefixes
    BY DEF Configurations
  <1>2. subnets[j] # subnets[k] /\ ~Overlaps(subnets[j], subnets[k])
    BY DEF Configurations, CheckSubnets
  <1> QED
    BY <1>1, <1>2, FileStoreAssumption DEF Nested, Overlaps, Contains

=============================================================================
