------------------------- MODULE MemoryStoreProofs -------------------------
(***************************************************************************)
(* memoryStore implements AtomicStore for any clients, addresses, lease    *)
(* duration and bound on the clock: calls are atomic although renewals     *)
(* change leases outside leasesMu and Purge deletes them one by one.       *)
(***************************************************************************)
EXTENDS MemoryStore, TLAPS

\* A handler calls for its own client.  While it saves, its object has the
\* addresses of the lease to be saved, and an expiry that is not later.
HandlerOK(c) ==
  /\ call[c].op \in {"idle", "Lease", "SaveLease", "DeleteLease",
                     "AllocateIP", "FreeIP"}
  /\ call[c].op \in {"Lease", "SaveLease", "DeleteLease"} => call[c].client = c
  /\ call[c].op = "AllocateIP" => call[c].ip \in Addrs
  /\ Saving(c) =>
       /\ ptr[c] # Nil
       /\ call[c].lease \in S!Lease
       /\ call[c].lease.ips = heap[c][ptr[c]].ips
       /\ heap[c][ptr[c]].exp <= call[c].lease.exp
       /\ call[c].lease.exp <= now + LeaseDuration

\* Leases have addresses, and expire in time.
HeapOK(c) ==
  /\ leases[c] # Nil => heap[c][leases[c]].ips # {}
  /\ ptr[c] # Nil => heap[c][ptr[c]].ips # {}
  /\ \A o \in Object : heap[c][o].exp <= now + LeaseDuration

\* While Purge holds leasesMu, a lease it has freed had expired and is gone, and
\* one it has visited and kept has not expired, whatever the handler writes.
PurgeOK(c) ==
  /\ leasesMu = "free" => freed[c].ips = {}
  /\ leasesMu = "Purge" =>
       /\ freed[c].ips # {} =>
            leases[c] = Nil /\ freed[c].exp <= call[Purger].time
       /\ c \in todo => leases[c] # Nil
       /\ leases[c] # Nil /\ c \notin todo =>
            heap[c][leases[c]].exp > call[Purger].time

PurgerOK ==
  /\ call[Purger].op \in {"idle", "Purge"}
  /\ Purging => /\ call[Purger].op = "Purge"
                /\ call[Purger].time \in Nat /\ call[Purger].time <= now
  /\ leasesMu = "Purge" => Purging

ClientOK(c) == HandlerOK(c) /\ HeapOK(c) /\ PurgeOK(c)

IInv == TypeOK /\ PurgerOK /\ \A c \in Clients : ClientOK(c)

-----------------------------------------------------------------------------
\* Calls and objects.

LEMMA CallTypes ==
  /\ \A c \in Clients : S!LeaseCall(c) \in S!Calls /\ S!DeleteCall(c) \in S!Calls
  /\ \A c \in Clients,
        l \in [ips : SUBSET Addrs, exp : 0 .. MaxTime + LeaseDuration] :
       S!SaveCall(c, l) \in S!Calls
  /\ \A a \in Addrs : S!AllocateCall(a) \in S!Calls /\ S!FreeCall(a) \in S!Calls
  /\ \A t \in 0 .. MaxTime + LeaseDuration : S!PurgeCall(t) \in S!Calls
  <1>1. ASSUME NEW c \in Clients
        PROVE  S!LeaseCall(c) \in S!Calls /\ S!DeleteCall(c) \in S!Calls
    BY DEF S!Calls
  <1>2. ASSUME NEW c \in Clients,
               NEW l \in [ips : SUBSET Addrs, exp : 0 .. MaxTime + LeaseDuration]
        PROVE  S!SaveCall(c, l) \in S!Calls
    BY DEF S!Calls
  <1>3. ASSUME NEW a \in Addrs
        PROVE  S!AllocateCall(a) \in S!Calls /\ S!FreeCall(a) \in S!Calls
    BY DEF S!Calls
  <1>4. ASSUME NEW t \in 0 .. MaxTime + LeaseDuration
        PROVE  S!PurgeCall(t) \in S!Calls
    BY DEF S!Calls
  <1> QED
    BY <1>1, <1>2, <1>3, <1>4

LEMMA Types ==
  ASSUME IInv
  PROVE  /\ now \in Nat /\ MaxTime \in Nat /\ LeaseDuration \in Nat \ {0}
         /\ now \in 0 .. MaxTime + LeaseDuration
         /\ now + LeaseDuration \in 0 .. MaxTime + LeaseDuration
         /\ \A c \in Clients, o \in Object :
              heap[c][o] \in S!Lease /\ heap[c][o].ips \in SUBSET Addrs
                /\ heap[c][o].exp \in Nat
         /\ \A c \in Clients : freed[c] \in S!Lease /\ freed[c].exp \in Nat
         /\ \A c \in Clients : leases[c] \in Object \cup {Nil} /\ ptr[c] \in Object \cup {Nil}
         /\ Nil \notin Object
         /\ Purger \in Procs /\ Clients \subseteq Procs /\ Purger \notin Clients
  BY MemoryStoreAssumption DEF IInv, TypeOK, S!Lease, Object, Nil, Procs

\* Collecting changes no object somebody points to.
LEMMA Collected ==
  ASSUME NEW K \in [Clients -> [Object -> S!Lease]], Collect(K)
  PROVE  /\ heap' \in [Clients -> [Object -> S!Lease]]
         /\ \A c \in Clients, o \in Object :
              /\ heap'[c][o] \in {K[c][o], NoLease}
              /\ o \in {leases'[c], ptr'[c]} => heap'[c][o] = K[c][o]
  <1>1. NoLease \in S!Lease
    BY DEF NoLease, S!Lease
  <1> QED
    BY <1>1 DEF Collect

LEMMA InitIInv == Init => IInv
  <1> SUFFICES ASSUME Init PROVE IInv
    OBVIOUS
  <1>1. NoLease \in S!Lease
    BY DEF NoLease, S!Lease
  <1>2. TypeOK
    BY <1>1, MemoryStoreAssumption DEF Init, TypeOK, NoneFreed
  <1>3. ASSUME NEW c \in Clients PROVE ClientOK(c)
    <2>1. HandlerOK(c)
      BY DEF Init, HandlerOK, Saving, S!Idle, Procs
    <2>2. HeapOK(c)
      BY MemoryStoreAssumption DEF Init, HeapOK, NoLease
    <2>3. PurgeOK(c)
      BY DEF Init, PurgeOK, NoneFreed, NoLease
    <2> QED
      BY <2>1, <2>2, <2>3 DEF ClientOK
  <1>4. PurgerOK
    BY DEF Init, PurgerOK, Purging, S!Idle, Procs
  <1> QED
    BY <1>2, <1>3, <1>4 DEF IInv

-----------------------------------------------------------------------------
\* The steps of a handler.

\* What a step of the handler of client c leaves alone.
Frame(c) ==
  /\ now' = now /\ call'[Purger] = call[Purger] /\ SamePurge
  /\ \A d \in Clients \ {c} :
       /\ call'[d] = call[d] /\ ptr'[d] = ptr[d] /\ leases'[d] = leases[d]
       /\ \A o \in Object :
            /\ heap'[d][o] \in {heap[d][o], NoLease}
            /\ o \in {leases[d], ptr[d]} => heap'[d][o] = heap[d][o]

LEMMA HandlerKeeps ==
  ASSUME IInv, TypeOK', NEW c \in Clients, Frame(c), ClientOK(c)' PROVE IInv'
  <1>1. PurgerOK'
    BY DEF Frame, SamePurge, IInv, PurgerOK, Purging
  <1>2. ASSUME NEW d \in Clients \ {c} PROVE ClientOK(d)'
    <2>1. /\ call'[d] = call[d] /\ ptr'[d] = ptr[d] /\ leases'[d] = leases[d]
          /\ freed' = freed /\ leasesMu' = leasesMu /\ todo' = todo
          /\ call'[Purger] = call[Purger] /\ now' = now
      BY DEF Frame, SamePurge
    <2>2. \A o \in Object :
            /\ heap'[d][o] \in {heap[d][o], NoLease}
            /\ o \in {leases[d], ptr[d]} => heap'[d][o] = heap[d][o]
      BY DEF Frame
    <2>3. ClientOK(d)
      BY DEF IInv
    <2>4. /\ now \in Nat /\ LeaseDuration \in Nat \ {0}
          /\ leases[d] \in Object \cup {Nil} /\ ptr[d] \in Object \cup {Nil}
      BY Types
    <2>5. HandlerOK(d)'
      BY <2>1, <2>2, <2>3, <2>4 DEF ClientOK, HandlerOK, Saving
    <2>6. HeapOK(d)'
      BY <2>1, <2>2, <2>3, <2>4 DEF ClientOK, HeapOK, NoLease
    <2>7. PurgeOK(d)'
      BY <2>1, <2>2, <2>3, <2>4 DEF ClientOK, PurgeOK
    <2> QED
      BY <2>5, <2>6, <2>7 DEF ClientOK
  <1> QED
    BY <1>1, <1>2 DEF IInv

\* Steps that only begin a call, answer one, or change the addresses.
LEMMA StoreKeeps ==
  ASSUME IInv, TypeOK', NEW c \in Clients, Frame(c),
         leases'[c] = leases[c], ptr'[c] \in {ptr[c], leases[c], Nil},
         \A o \in Object :
           /\ heap'[c][o] \in {heap[c][o], NoLease}
           /\ o \in {leases'[c], ptr'[c]} => heap'[c][o] = heap[c][o],
         HandlerOK(c)'
  PROVE  IInv'
  <1>1. /\ freed' = freed /\ leasesMu' = leasesMu /\ todo' = todo
        /\ call'[Purger] = call[Purger] /\ now' = now
    BY DEF Frame, SamePurge
  <1>2. /\ now \in Nat /\ LeaseDuration \in Nat \ {0} /\ Nil \notin Object
        /\ leases[c] \in Object \cup {Nil} /\ ptr[c] \in Object \cup {Nil}
    BY Types
  <1>3. ClientOK(c)
    BY DEF IInv
  <1>4. HeapOK(c)'
    BY <1>1, <1>2, <1>3 DEF ClientOK, HeapOK, NoLease
  <1>5. PurgeOK(c)'
    BY <1>1, <1>2, <1>3 DEF ClientOK, PurgeOK
  <1> QED
    BY <1>4, <1>5, HandlerKeeps DEF ClientOK

\* What collecting leaves of the other clients' objects.
LEMMA CollectFrame ==
  ASSUME IInv, NEW c \in Clients, NEW K \in [Clients -> [Object -> S!Lease]],
         \A d \in Clients \ {c} : K[d] = heap[d] /\ ptr'[d] = ptr[d] /\ leases'[d] = leases[d],
         Collect(K)
  PROVE  \A d \in Clients \ {c}, o \in Object :
           /\ heap'[d][o] \in {heap[d][o], NoLease}
           /\ o \in {leases[d], ptr[d]} => heap'[d][o] = heap[d][o]
  BY Collected

LEMMA BeginCallStep ==
  ASSUME IInv, NEW c \in Clients, BeginCall(c) PROVE IInv'
  <1>1. PICK f \in S!Calls :
          /\ Call(c, f)
          /\ f.op \in {"Lease", "DeleteLease", "AllocateIP", "FreeIP"}
          /\ f.op \in {"Lease", "DeleteLease"} => f.client = c
          /\ f.op = "AllocateIP" => f.ip \in Addrs
    BY CallTypes DEF BeginCall, S!LeaseCall, S!DeleteCall, S!AllocateCall, S!FreeCall
  <1>2. /\ ptr' = [ptr EXCEPT ![c] = Nil] /\ call' = [call EXCEPT ![c] = f]
        /\ UNCHANGED <<now, leases, allocated, ok>> /\ SamePurge /\ Collect(heap)
    BY <1>1 DEF BeginCall, Call
  <1>3. TypeOK /\ heap \in [Clients -> [Object -> S!Lease]] /\ Purger \notin Clients
    BY MemoryStoreAssumption DEF IInv, TypeOK
  <1>4. TypeOK'
    BY <1>1, <1>2, <1>3, Collected DEF TypeOK, SamePurge
  <1>5. Frame(c)
    BY <1>2, <1>3, CollectFrame DEF Frame, TypeOK, Procs
  <1>6. call'[c] = f /\ ptr'[c] = Nil /\ leases'[c] = leases[c]
    BY <1>2, <1>3 DEF TypeOK, Procs
  <1>7. HandlerOK(c)'
    BY <1>1, <1>6 DEF HandlerOK, Saving
  <1>8. \A o \in Object :
          /\ heap'[c][o] \in {heap[c][o], NoLease}
          /\ o \in {leases'[c], ptr'[c]} => heap'[c][o] = heap[c][o]
    BY <1>2, <1>3, Collected
  <1> QED
    BY <1>4, <1>5, <1>6, <1>7, <1>8, StoreKeeps

LEMMA AnswerStep ==
  ASSUME IInv, NEW c \in Clients, Lease(c) \/ AllocateIP(c) \/ FreeIP(c) PROVE IInv'
  <1>1. /\ call' = [call EXCEPT ![c] = S!Idle]
        /\ ptr' = ptr \/ (leases[c] # Nil /\ ptr' = [ptr EXCEPT ![c] = leases[c]])
        /\ ok' = ok \/ (\E b \in BOOLEAN : ok' = [ok EXCEPT ![c] = b])
        /\ UNCHANGED <<now, heap, leases>> /\ SamePurge
    BY DEF Lease, AllocateIP, FreeIP, Return
  <1>2. TypeOK /\ Purger \notin Clients
    BY MemoryStoreAssumption DEF IInv, TypeOK
  <1>3. allocated' \subseteq Addrs
    BY <1>2 DEF Lease, AllocateIP, FreeIP, IInv, ClientOK, HandlerOK, TypeOK
  <1>4. TypeOK'
    BY <1>1, <1>2, <1>3 DEF TypeOK, SamePurge
  <1>5. Frame(c)
    BY <1>1, <1>2 DEF Frame, TypeOK, Procs
  <1>6. call'[c] = S!Idle /\ ptr'[c] \in {ptr[c], leases[c]}
    BY <1>1, <1>2 DEF TypeOK, Procs
  <1>7. HandlerOK(c)'
    BY <1>6 DEF HandlerOK, Saving, S!Idle
  <1> QED
    BY <1>1, <1>4, <1>5, <1>6, <1>7, StoreKeeps

LEMMA DeleteLeaseStep ==
  ASSUME IInv, NEW c \in Clients, DeleteLease(c) PROVE IInv'
  <1>1. /\ leasesMu = "free" /\ leases' = [leases EXCEPT ![c] = Nil]
        /\ call' = [call EXCEPT ![c] = S!Idle]
        /\ UNCHANGED <<now, allocated, ok, ptr>> /\ SamePurge /\ Collect(heap)
    BY DEF DeleteLease, LeasesMuFree, Return
  <1>2. TypeOK /\ heap \in [Clients -> [Object -> S!Lease]] /\ Purger \notin Clients
    BY MemoryStoreAssumption DEF IInv, TypeOK
  <1>3. TypeOK'
    BY <1>1, <1>2, Collected DEF TypeOK, SamePurge
  <1>4. Frame(c)
    BY <1>1, <1>2, CollectFrame DEF Frame, TypeOK, Procs
  <1>5. call'[c] = S!Idle /\ ptr'[c] = ptr[c] /\ leases'[c] = Nil
    BY <1>1, <1>2 DEF TypeOK, Procs
  <1>6. \A o \in Object :
          /\ heap'[c][o] \in {heap[c][o], NoLease}
          /\ o = ptr'[c] => heap'[c][o] = heap[c][o]
    BY <1>1, <1>2, Collected
  <1>7. ClientOK(c)
    BY DEF IInv
  <1>8. HandlerOK(c)'
    BY <1>5 DEF HandlerOK, Saving, S!Idle
  <1>9. HeapOK(c)'
    BY <1>1, <1>5, <1>6, <1>7, Types DEF ClientOK, HeapOK, NoLease
  <1>10. PurgeOK(c)'
    BY <1>1, <1>7 DEF ClientOK, PurgeOK, SamePurge
  <1> QED
    BY <1>3, <1>4, <1>8, <1>9, <1>10, HandlerKeeps DEF ClientOK

\* The map gets the object that the handler has filled in.
LEMMA SaveLeaseStep ==
  ASSUME IInv, NEW c \in Clients, SaveLease(c) PROVE IInv'
  <1>1. /\ leasesMu = "free" /\ leases' = [leases EXCEPT ![c] = ptr[c]]
        /\ call' = [call EXCEPT ![c] = S!Idle] /\ ptr' = [ptr EXCEPT ![c] = Nil]
        /\ UNCHANGED <<now, allocated, ok>> /\ SamePurge /\ Collect(heap)
    BY DEF SaveLease, LeasesMuFree, Return
  <1>2. TypeOK /\ heap \in [Clients -> [Object -> S!Lease]] /\ Purger \notin Clients
    BY MemoryStoreAssumption DEF IInv, TypeOK
  <1>3. TypeOK'
    BY <1>1, <1>2, Collected DEF TypeOK, SamePurge
  <1>4. Frame(c)
    BY <1>1, <1>2, CollectFrame DEF Frame, TypeOK, Procs
  <1>5. call'[c] = S!Idle /\ ptr'[c] = Nil /\ leases'[c] = ptr[c]
    BY <1>1, <1>2 DEF TypeOK, Procs
  <1>6. \A o \in Object :
          /\ heap'[c][o] \in {heap[c][o], NoLease}
          /\ o = leases'[c] => heap'[c][o] = heap[c][o]
    BY <1>1, <1>2, Collected
  <1>7. ClientOK(c)
    BY DEF IInv
  <1>8. HandlerOK(c)'
    BY <1>5 DEF HandlerOK, Saving, S!Idle
  <1>9. HeapOK(c)'
    BY <1>1, <1>5, <1>6, <1>7, Types DEF ClientOK, HeapOK, NoLease
  <1>10. PurgeOK(c)'
    BY <1>1, <1>7 DEF ClientOK, PurgeOK, SamePurge
  <1> QED
    BY <1>3, <1>4, <1>8, <1>9, <1>10, HandlerKeeps DEF ClientOK

LEMMA BeginSaveNewStep ==
  ASSUME IInv, NEW c \in Clients, BeginSaveNew(c) PROVE IInv'
  <1> DEFINE o == IF leases[c] = 1 THEN 2 ELSE 1
  <1>1. PICK a \in Addrs :
          LET l == [ips |-> {a}, exp |-> now + LeaseDuration]
          IN /\ Call(c, S!SaveCall(c, l))
             /\ ptr' = [ptr EXCEPT ![c] = o]
             /\ Collect([heap EXCEPT ![c][o] = l])
    BY DEF BeginSaveNew
  <1> DEFINE l == [ips |-> {a}, exp |-> now + LeaseDuration]
  <1> DEFINE K == [heap EXCEPT ![c][o] = l]
  <1>2. /\ UNCHANGED <<now, leases, allocated, ok>> /\ SamePurge
        /\ call' = [call EXCEPT ![c] = S!SaveCall(c, l)]
        /\ ptr' = [ptr EXCEPT ![c] = o] /\ Collect(K)
    BY <1>1 DEF BeginSaveNew, Call
  <1>3. TypeOK /\ heap \in [Clients -> [Object -> S!Lease]] /\ Purger \notin Clients
    BY MemoryStoreAssumption DEF IInv, TypeOK
  <1>4. /\ now \in Nat /\ now + LeaseDuration \in 0 .. MaxTime + LeaseDuration
        /\ leases[c] \in Object \cup {Nil} /\ o \in Object /\ o # leases[c] /\ o # Nil
        /\ LeaseDuration \in Nat
    BY Types DEF Object, Nil
  <1>5. /\ l \in S!Lease /\ l.ips = {a} /\ l.exp = now + LeaseDuration
        /\ S!SaveCall(c, l) \in S!Calls
    BY <1>4, CallTypes DEF S!Lease
  <1>6. /\ K \in [Clients -> [Object -> S!Lease]]
        /\ \A d \in Clients \ {c} : K[d] = heap[d]
        /\ K[c][o] = l /\ \A p \in Object \ {o} : K[c][p] = heap[c][p]
    BY <1>3, <1>4, <1>5
  <1> HIDE DEF o, l, K
  <1>7. TypeOK'
    BY <1>2, <1>3, <1>4, <1>5, <1>6, Collected DEF TypeOK, SamePurge
  <1>8. Frame(c)
    BY <1>2, <1>3, <1>6, CollectFrame DEF Frame, TypeOK, Procs
  <1>9. call'[c] = S!SaveCall(c, l) /\ ptr'[c] = o /\ leases'[c] = leases[c]
    BY <1>2, <1>3 DEF TypeOK, Procs
  <1>10. /\ heap'[c][o] = l
         /\ \A p \in Object \ {o} :
              /\ heap'[c][p] \in {heap[c][p], NoLease}
              /\ p = leases[c] => heap'[c][p] = heap[c][p]
    BY <1>2, <1>4, <1>6, <1>9, Collected
  <1>11. ClientOK(c)
    BY DEF IInv
  <1>12. HandlerOK(c)'
    <2>1. now' = now
      BY <1>2
    <2> QED
      BY <2>1, <1>4, <1>5, <1>9, <1>10 DEF HandlerOK, Saving, S!SaveCall
  <1>13. HeapOK(c)'
    <2>1. now' = now
      BY <1>2
    <2>2. /\ leases[c] # Nil => heap'[c][leases[c]] = heap[c][leases[c]]
          /\ \A p \in Object : heap'[c][p].exp <= now + LeaseDuration
      BY <1>4, <1>5, <1>10, <1>11 DEF ClientOK, HeapOK, NoLease
    <2> QED
      BY <1>4, <1>5, <1>9, <1>10, <1>11, <2>1, <2>2 DEF ClientOK, HeapOK
  <1>14. PurgeOK(c)'
    <2>1. /\ freed' = freed /\ leasesMu' = leasesMu /\ todo' = todo
          /\ call'[Purger] = call[Purger]
      BY <1>8 DEF Frame, SamePurge
    <2>2. leases[c] # Nil => heap'[c][leases[c]] = heap[c][leases[c]]
      BY <1>4, <1>10
    <2> QED
      BY <1>9, <1>11, <2>1, <2>2 DEF ClientOK, PurgeOK
  <1> QED
    BY <1>7, <1>8, <1>12, <1>13, <1>14, HandlerKeeps DEF ClientOK

LEMMA BeginSaveRenewedStep ==
  ASSUME IInv, NEW c \in Clients, BeginSaveRenewed(c) PROVE IInv'
  <1> DEFINE old == heap[c][ptr[c]]
  <1> DEFINE l == [ips |-> old.ips, exp |-> now + LeaseDuration]
  <1>1. ptr[c] \in Object /\ ptr[c] # Nil /\ old \in S!Lease
    BY Types DEF BeginSaveRenewed
  <1>2. /\ call' = [call EXCEPT ![c] = S!SaveCall(c, l)]
        /\ UNCHANGED <<now, heap, leases, allocated, ok, ptr>> /\ SamePurge
    <2>1. [old EXCEPT !.exp = now + LeaseDuration] = l
      BY <1>1 DEF S!Lease
    <2> QED
      BY <2>1 DEF BeginSaveRenewed, Call
  <1>3. /\ old.exp <= now + LeaseDuration
        /\ now + LeaseDuration \in 0 .. MaxTime + LeaseDuration
    BY <1>1, Types DEF IInv, ClientOK, HeapOK
  <1>4. /\ l \in S!Lease /\ l.ips = old.ips /\ l.exp = now + LeaseDuration
        /\ l \in [ips : SUBSET Addrs, exp : 0 .. MaxTime + LeaseDuration]
    BY <1>1, <1>3 DEF S!Lease
  <1>5. S!SaveCall(c, l) \in S!Calls
    BY <1>4, CallTypes
  <1> HIDE DEF l
  <1>6. TypeOK /\ Purger \notin Clients
    BY MemoryStoreAssumption DEF IInv, TypeOK
  <1>7. TypeOK'
    BY <1>2, <1>5, <1>6 DEF TypeOK, SamePurge
  <1>8. Frame(c)
    BY <1>2, <1>6 DEF Frame, TypeOK, Procs
  <1>9. call'[c] = S!SaveCall(c, l) /\ ptr' = ptr /\ leases' = leases /\ heap' = heap
        /\ now' = now
    BY <1>2, <1>6 DEF TypeOK, Procs
  <1>10. HandlerOK(c)'
    BY <1>1, <1>3, <1>4, <1>9 DEF HandlerOK, Saving, S!SaveCall
  <1> QED
    BY <1>7, <1>8, <1>9, <1>10, StoreKeeps

\* The write makes the lease expire later, never earlier.
LEMMA WriteStartStep ==
  ASSUME IInv, NEW c \in Clients, WriteStart(c) PROVE IInv'
  <1> DEFINE l == call[c].lease
  <1> DEFINE o == ptr[c]
  <1>1. ClientOK(c) /\ Saving(c)
    BY DEF IInv, WriteStart
  <1>2. /\ l \in S!Lease /\ o \in Object /\ l.ips = heap[c][o].ips
        /\ heap[c][o].exp <= l.exp /\ l.exp <= now + LeaseDuration
        /\ l.exp \in Nat /\ heap[c][o].exp \in Nat
    BY <1>1, Types DEF ClientOK, HandlerOK, S!Lease
  <1>3. /\ heap' = [heap EXCEPT ![c][o] = l]
        /\ UNCHANGED <<now, leases, allocated, call, ok, ptr>> /\ SamePurge
    BY DEF WriteStart
  <1>4. TypeOK /\ heap \in [Clients -> [Object -> S!Lease]]
    BY DEF IInv, TypeOK
  <1>5. /\ heap' \in [Clients -> [Object -> S!Lease]]
        /\ \A d \in Clients \ {c} : heap'[d] = heap[d]
        /\ heap'[c][o] = l /\ \A p \in Object \ {o} : heap'[c][p] = heap[c][p]
    BY <1>2, <1>3, <1>4
  <1>6. TypeOK'
    BY <1>3, <1>4, <1>5 DEF TypeOK, SamePurge
  <1>7. Frame(c)
    BY <1>3, <1>5 DEF Frame
  <1>8. /\ now' = now /\ leases' = leases /\ ptr' = ptr /\ call' = call
        /\ freed' = freed /\ leasesMu' = leasesMu /\ todo' = todo
    BY <1>3 DEF SamePurge
  <1>9. HandlerOK(c)'
    BY <1>1, <1>2, <1>5, <1>8 DEF ClientOK, HandlerOK, Saving
  <1>10. HeapOK(c)'
    BY <1>1, <1>2, <1>5, <1>8, Types DEF ClientOK, HeapOK
  <1>11. PurgeOK(c)'
    <2>1. CASE leases[c] = o
      <3>1. leasesMu = "Purge" => call[Purger].time \in Nat
        BY DEF IInv, PurgerOK
      <3> QED
        BY <1>1, <1>2, <1>5, <1>8, <2>1, <3>1 DEF ClientOK, PurgeOK
    <2>2. CASE leases[c] # o
      BY <1>1, <1>5, <1>8, <2>2, Types DEF ClientOK, PurgeOK
    <2> QED
      BY <2>1, <2>2
  <1> QED
    BY <1>6, <1>7, <1>9, <1>10, <1>11, HandlerKeeps DEF ClientOK

-----------------------------------------------------------------------------
\* The steps of the purge loop, and the clock.

LEMMA TickStep == ASSUME IInv, Tick PROVE IInv'
  <1>1. /\ now' = now + 1 /\ now < MaxTime
        /\ UNCHANGED <<heap, leases, allocated, call, ok, ptr, leasesMu, todo, freed>>
    BY DEF Tick, SamePurge
  <1>2. TypeOK' /\ now \in Nat /\ LeaseDuration \in Nat
    BY <1>1, Types DEF IInv, TypeOK
  <1>3. PurgerOK'
    BY <1>1, <1>2 DEF IInv, PurgerOK, Purging
  <1>4. ASSUME NEW c \in Clients PROVE ClientOK(c)'
    <2>1. /\ ClientOK(c) /\ \A o \in Object : heap[c][o].exp \in Nat
          /\ Saving(c) => call[c].lease.exp \in Nat
      BY Types DEF IInv, ClientOK, HandlerOK, S!Lease
    <2>2. HandlerOK(c)'
      BY <1>1, <1>2, <2>1 DEF ClientOK, HandlerOK, Saving
    <2>3. HeapOK(c)' /\ PurgeOK(c)'
      BY <1>1, <1>2, <2>1 DEF ClientOK, HeapOK, PurgeOK
    <2> QED
      BY <2>2, <2>3 DEF ClientOK
  <1> QED
    BY <1>2, <1>3, <1>4 DEF IInv

LEMMA BeginPurgeStep == ASSUME IInv, BeginPurge PROVE IInv'
  <1>1. /\ call[Purger] = S!Idle /\ call' = [call EXCEPT ![Purger] = S!PurgeCall(now)]
        /\ UNCHANGED <<now, heap, leases, allocated, ok, ptr, leasesMu, todo, freed>>
    BY DEF BeginPurge, Call, SamePurge
  <1>2. S!PurgeCall(now) \in S!Calls /\ now \in Nat /\ TypeOK
    BY CallTypes, Types DEF IInv
  <1>3. TypeOK'
    BY <1>1, <1>2 DEF TypeOK
  <1>4. call'[Purger] = S!PurgeCall(now) /\ \A c \in Clients : call'[c] = call[c]
    BY <1>1, <1>2, Types DEF TypeOK
  <1>5. leasesMu # "Purge"
    BY <1>1 DEF IInv, PurgerOK, Purging
  <1>6. PurgerOK'
    BY <1>1, <1>2, <1>4 DEF PurgerOK, Purging, S!PurgeCall, S!Idle
  <1>7. ASSUME NEW c \in Clients PROVE ClientOK(c)'
    <2>1. ClientOK(c)
      BY DEF IInv
    <2>2. HandlerOK(c)' /\ HeapOK(c)'
      BY <1>1, <1>4, <2>1 DEF ClientOK, HandlerOK, HeapOK, Saving
    <2>3. PurgeOK(c)'
      BY <1>1, <1>5, <2>1 DEF ClientOK, PurgeOK
    <2> QED
      BY <2>2, <2>3 DEF ClientOK
  <1> QED
    BY <1>3, <1>6, <1>7 DEF IInv

LEMMA PurgeLockStep == ASSUME IInv, PurgeLock PROVE IInv'
  <1>1. /\ Purging /\ leasesMu = "free" /\ leasesMu' = "Purge"
        /\ todo' = {c \in Clients : leases[c] # Nil}
        /\ UNCHANGED <<now, heap, leases, allocated, call, ok, ptr, freed>>
    BY DEF PurgeLock, LeasesMuFree
  <1>2. TypeOK'
    BY <1>1 DEF IInv, TypeOK
  <1>3. PurgerOK'
    BY <1>1 DEF IInv, PurgerOK, Purging
  <1>4. ASSUME NEW c \in Clients PROVE ClientOK(c)'
    <2>1. ClientOK(c)
      BY DEF IInv
    <2>2. HandlerOK(c)' /\ HeapOK(c)'
      BY <1>1, <2>1 DEF ClientOK, HandlerOK, HeapOK, Saving
    <2>3. PurgeOK(c)'
      BY <1>1, <2>1 DEF ClientOK, PurgeOK
    <2> QED
      BY <2>2, <2>3 DEF ClientOK
  <1> QED
    BY <1>2, <1>3, <1>4 DEF IInv

LEMMA PurgeVisitStep == ASSUME IInv, PurgeVisit PROVE IInv'
  <1>1. /\ leasesMu = "Purge" /\ Collect(heap)
        /\ UNCHANGED <<now, allocated, call, ok, ptr, leasesMu>>
    BY DEF PurgeVisit
  <1>2. PICK c \in todo :
          /\ todo' = todo \ {c}
          /\ \/ /\ S!Expired(heap[c][leases[c]], call[Purger].time)
                /\ leases' = [leases EXCEPT ![c] = Nil]
                /\ freed' = [freed EXCEPT ![c] = heap[c][leases[c]]]
             \/ /\ ~S!Expired(heap[c][leases[c]], call[Purger].time)
                /\ leases' = leases /\ freed' = freed
    BY DEF PurgeVisit
  <1>3. TypeOK /\ c \in Clients /\ heap \in [Clients -> [Object -> S!Lease]]
    BY DEF IInv, TypeOK
  <1>4. /\ leases[c] # Nil /\ leases[c] \in Object /\ heap[c][leases[c]] \in S!Lease
        /\ heap[c][leases[c]].exp \in Nat /\ call[Purger].time \in Nat
    BY <1>1, <1>3, Types DEF IInv, ClientOK, PurgeOK, PurgerOK
  <1>5. TypeOK'
    BY <1>1, <1>2, <1>3, <1>4, Collected DEF TypeOK
  <1>6. PurgerOK'
    BY <1>1 DEF IInv, PurgerOK, Purging
  <1>7. \A d \in Clients, o \in Object :
          /\ heap'[d][o] \in {heap[d][o], NoLease}
          /\ o \in {leases'[d], ptr'[d]} => heap'[d][o] = heap[d][o]
    BY <1>1, <1>3, Collected
  <1>8. \A d \in Clients : leases'[d] \in {leases[d], Nil}
    BY <1>2, <1>3 DEF TypeOK
  <1>9. ASSUME NEW d \in Clients PROVE ClientOK(d)'
    <2>1. ClientOK(d)
      BY DEF IInv
    <2>2. HandlerOK(d)'
      BY <1>1, <1>7, <2>1, Types DEF ClientOK, HandlerOK, Saving
    <2>3. HeapOK(d)'
      BY <1>1, <1>7, <1>8, <2>1, Types DEF ClientOK, HeapOK, NoLease
    <2>4. PurgeOK(d)'
      <3>1. CASE d # c
        <4>1. leases'[d] = leases[d] /\ freed'[d] = freed[d] /\ (d \in todo' <=> d \in todo)
          BY <1>2, <3>1 DEF IInv, TypeOK
        <4> QED
          BY <1>1, <1>7, <2>1, <4>1, Types DEF ClientOK, PurgeOK
      <3>2. CASE d = c /\ leases' = leases
        <4>1. freed'[c] = freed[c] /\ c \notin todo'
              /\ heap[c][leases[c]].exp > call[Purger].time
          BY <1>2, <1>3, <1>4, <3>2 DEF S!Expired, TypeOK, Nil
        <4> QED
          BY <1>1, <1>4, <1>7, <2>1, <3>2, <4>1 DEF ClientOK, PurgeOK
      <3>3. CASE d = c /\ leases' # leases
        <4>1. /\ leases'[c] = Nil /\ freed'[c] = heap[c][leases[c]] /\ c \notin todo'
              /\ heap[c][leases[c]].exp <= call[Purger].time
          BY <1>2, <1>3, <3>3 DEF S!Expired, TypeOK
        <4> QED
          BY <1>1, <3>3, <4>1 DEF PurgeOK
      <3> QED
        BY <3>1, <3>2, <3>3
    <2> QED
      BY <2>2, <2>3, <2>4 DEF ClientOK
  <1> QED
    BY <1>5, <1>6, <1>9 DEF IInv

LEMMA PurgeSweepStep == ASSUME IInv, PurgeSweep PROVE IInv'
  <1>1. /\ leasesMu' = "free" /\ freed' = NoneFreed
        /\ allocated' \subseteq allocated
        /\ call' = [call EXCEPT ![Purger] = S!Idle]
        /\ UNCHANGED <<now, heap, leases, ok, ptr, todo>>
    BY DEF PurgeSweep, Return
  <1>2. TypeOK /\ NoLease \in S!Lease
    BY DEF IInv, NoLease, S!Lease
  <1>3. TypeOK'
    BY <1>1, <1>2 DEF TypeOK, NoneFreed
  <1>4. call'[Purger] = S!Idle /\ \A c \in Clients : call'[c] = call[c]
    BY <1>1, <1>2, Types DEF TypeOK
  <1>5. PurgerOK'
    BY <1>1, <1>4 DEF PurgerOK, Purging, S!Idle
  <1>6. ASSUME NEW c \in Clients PROVE ClientOK(c)'
    <2>1. ClientOK(c)
      BY DEF IInv
    <2>2. HandlerOK(c)' /\ HeapOK(c)'
      BY <1>1, <1>4, <2>1 DEF ClientOK, HandlerOK, HeapOK, Saving
    <2>3. PurgeOK(c)'
      BY <1>1 DEF PurgeOK, NoneFreed, NoLease
    <2> QED
      BY <2>2, <2>3 DEF ClientOK
  <1> QED
    BY <1>3, <1>5, <1>6 DEF IInv

LEMMA NextIInv == IInv /\ [Next]_vars => IInv'
  <1> SUFFICES ASSUME IInv, [Next]_vars PROVE IInv'
    OBVIOUS
  <1>1. CASE UNCHANGED vars
    <2>1. TypeOK' /\ PurgerOK'
      BY <1>1 DEF vars, IInv, TypeOK, PurgerOK, Purging
    <2>2. \A c \in Clients : ClientOK(c)'
      BY <1>1 DEF vars, IInv, ClientOK, HandlerOK, HeapOK, PurgeOK, Saving
    <2> QED
      BY <2>1, <2>2 DEF IInv
  <1> QED
    BY <1>1, TickStep, BeginPurgeStep, PurgeLockStep, PurgeVisitStep, PurgeSweepStep,
       BeginCallStep, BeginSaveNewStep, BeginSaveRenewedStep, WriteStartStep,
       AnswerStep, DeleteLeaseStep, SaveLeaseStep
    DEF Next, PurgeStep, HandlerStep

-----------------------------------------------------------------------------
\* The simulation.

\* The lease of c as AtomicStore has it.
Seen(c) ==
  IF freed[c].ips # {} THEN freed[c]
  ELSE IF leases[c] = Nil THEN NoLease ELSE heap[c][leases[c]]

Bar == [c \in Clients |-> Seen(c)]

\* The steps of AtomicStore, said of Bar.
LEMMA AtomicBegin ==
  ASSUME NEW q \in Procs, NEW f \in S!Calls, call[q] = S!Idle,
         call' = [call EXCEPT ![q] = f], Bar' = Bar, allocated' = allocated, ok' = ok
  PROVE  S!Next
  BY DEF S!Next, S!Begin, Bar, Seen

LEMMA AtomicLease ==
  ASSUME NEW q \in Procs, call[q].op = "Lease", call' = [call EXCEPT ![q] = S!Idle],
         ok' = [ok EXCEPT ![q] = Bar[call[q].client] # NoLease],
         Bar' = Bar, allocated' = allocated
  PROVE  S!Next
  BY DEF S!Next, S!Complete, S!Effect, Bar, Seen, NoLease, S!NoLease

LEMMA AtomicSave ==
  ASSUME NEW q \in Procs, call[q].op = "SaveLease",
         call' = call \/ call' = [call EXCEPT ![q] = S!Idle], ok' = ok,
         Bar' = [Bar EXCEPT ![call[q].client] = call[q].lease], allocated' = allocated
  PROVE  S!Next
  BY DEF S!Next, S!Complete, S!SeenEarly, S!Effect, S!SaveLease, Bar, Seen

LEMMA AtomicDelete ==
  ASSUME NEW q \in Procs, call[q].op = "DeleteLease",
         call' = [call EXCEPT ![q] = S!Idle], ok' = ok,
         Bar' = [Bar EXCEPT ![call[q].client] = NoLease], allocated' = allocated
  PROVE  S!Next
  BY DEF S!Next, S!Complete, S!Effect, S!DeleteLease, S!NoLease, NoLease, Bar, Seen

LEMMA AtomicAllocate ==
  ASSUME NEW q \in Procs, call[q].op = "AllocateIP",
         call' = [call EXCEPT ![q] = S!Idle], Bar' = Bar,
         ok' = [ok EXCEPT ![q] = call[q].ip \notin allocated],
         allocated' = allocated \cup {call[q].ip}
  PROVE  S!Next
  <1>1. CASE call[q].ip \in allocated
    <2>1. allocated' = allocated /\ ok' = [ok EXCEPT ![q] = FALSE]
      BY <1>1
    <2> QED
      BY <1>1, <2>1 DEF S!Next, S!Complete, S!Effect, Bar, Seen
  <1>2. CASE call[q].ip \notin allocated
    <2>1. ok' = [ok EXCEPT ![q] = TRUE]
      BY <1>2
    <2> QED
      BY <1>2, <2>1 DEF S!Next, S!Complete, S!Effect, S!AllocateIP, Bar, Seen
  <1> QED
    BY <1>1, <1>2

LEMMA AtomicFree ==
  ASSUME NEW q \in Procs, call[q].op = "FreeIP",
         call' = [call EXCEPT ![q] = S!Idle], Bar' = Bar, ok' = ok,
         allocated' = allocated \ {call[q].ip}
  PROVE  S!Next
  BY DEF S!Next, S!Complete, S!Effect, S!FreeIP, Bar, Seen

LEMMA AtomicPurge ==
  ASSUME NEW q \in Procs, call[q].op = "Purge",
         call' = [call EXCEPT ![q] = S!Idle], ok' = ok,
         NEW gone, gone = {c \in Clients : Bar[c] # NoLease /\ Bar[c].exp <= call[q].time},
         Bar' = [c \in Clients |-> IF c \in gone THEN NoLease ELSE Bar[c]],
         allocated' = allocated \ UNION {Bar[c].ips : c \in gone}
  PROVE  S!Next
  <1>1. gone = S!ExpiredClients(call[q].time)
    BY DEF S!ExpiredClients, S!Expired, S!NoLease, NoLease, Bar, Seen
  <1>2. UNION {Bar[c].ips : c \in gone} = S!ExpiredIPs(call[q].time)
    BY <1>1 DEF S!ExpiredIPs, S!ExpiredClients, Bar, Seen
  <1>3. S!PurgeLeases(call[q].time)
    BY <1>1, <1>2 DEF S!PurgeLeases, S!NoLease, NoLease, Bar, Seen
  <1> QED
    BY <1>3 DEF S!Next, S!Complete, S!Effect

LEMMA AtomicStutter ==
  ASSUME Bar' = Bar, allocated' = allocated, call' = call, ok' = ok
  PROVE  UNCHANGED S!vars
  BY DEF S!vars, Bar, Seen

\* What is seen stays as long as the map, its objects and freed do.
LEMMA SameBar ==
  ASSUME NEW C \in SUBSET Clients, freed' = freed,
         \A c \in C : /\ leases'[c] = leases[c]
                      /\ leases[c] # Nil => heap'[c][leases[c]] = heap[c][leases[c]]
  PROVE  \A c \in C : Seen(c)' = Seen(c)
  BY DEF Seen

LEMMA AtomicTick ==
  ASSUME IInv, Tick \/ BeginPurge PROVE S!Next \/ UNCHANGED S!vars
  <1>1. CASE Tick
    <2>1. Bar' = Bar
      BY <1>1, SameBar DEF Tick, SamePurge, Bar
    <2> QED
      BY <1>1, <2>1, AtomicStutter DEF Tick
  <1>2. CASE BeginPurge
    <2>1. Bar' = Bar
      BY <1>2, SameBar DEF BeginPurge, SamePurge, Bar
    <2>2. S!PurgeCall(now) \in S!Calls /\ Purger \in Procs
      BY CallTypes, Types
    <2> QED
      BY <1>2, <2>1, <2>2, AtomicBegin DEF BeginPurge, Call
  <1> QED
    BY <1>1, <1>2

LEMMA AtomicCallStep ==
  ASSUME IInv, NEW c \in Clients, BeginCall(c) \/ BeginSaveNew(c) \/ BeginSaveRenewed(c)
  PROVE  S!Next
  <1>1. heap \in [Clients -> [Object -> S!Lease]]
    BY DEF IInv, TypeOK
  <1>2. CASE BeginCall(c)
    <2>1. PICK f \in S!Calls : Call(c, f)
      BY <1>2, CallTypes DEF BeginCall
    <2>2. Collect(heap) /\ leases' = leases /\ freed' = freed /\ allocated' = allocated
          /\ ok' = ok
      BY <1>2 DEF BeginCall, SamePurge
    <2>3. Bar' = Bar
      BY <1>1, <2>2, Collected, SameBar, Types DEF Bar
    <2> QED
      BY <2>1, <2>2, <2>3, AtomicBegin, Types DEF Call
  <1>3. CASE BeginSaveRenewed(c)
    <2> DEFINE l == [ips |-> heap[c][ptr[c]].ips, exp |-> now + LeaseDuration]
    <2>1. ptr[c] \in Object /\ heap[c][ptr[c]] \in S!Lease
      BY <1>3, Types DEF BeginSaveRenewed
    <2>2. [heap[c][ptr[c]] EXCEPT !.exp = now + LeaseDuration] = l
      BY <2>1 DEF S!Lease
    <2>3. l \in [ips : SUBSET Addrs, exp : 0 .. MaxTime + LeaseDuration]
      BY <2>1, Types DEF S!Lease
    <2>4. S!SaveCall(c, l) \in S!Calls
      BY <2>3, CallTypes
    <2>5. Call(c, S!SaveCall(c, l))
      BY <1>3, <2>2 DEF BeginSaveRenewed
    <2>6. heap' = heap /\ leases' = leases /\ freed' = freed /\ allocated' = allocated
          /\ ok' = ok
      BY <1>3 DEF BeginSaveRenewed, SamePurge
    <2>7. Bar' = Bar
      BY <2>6, SameBar DEF Bar
    <2> QED
      BY <2>4, <2>5, <2>6, <2>7, AtomicBegin, Types DEF Call
  <1>4. CASE BeginSaveNew(c)
    <2> DEFINE o == IF leases[c] = 1 THEN 2 ELSE 1
    <2>1. PICK l \in [ips : SUBSET Addrs, exp : 0 .. MaxTime + LeaseDuration] :
            Call(c, S!SaveCall(c, l)) /\ Collect([heap EXCEPT ![c][o] = l])
      <3>1. PICK a \in Addrs :
              LET l == [ips |-> {a}, exp |-> now + LeaseDuration]
              IN Call(c, S!SaveCall(c, l)) /\ Collect([heap EXCEPT ![c][o] = l])
        BY <1>4 DEF BeginSaveNew
      <3>2. [ips |-> {a}, exp |-> now + LeaseDuration]
              \in [ips : SUBSET Addrs, exp : 0 .. MaxTime + LeaseDuration]
        BY Types
      <3> QED
        BY <3>1, <3>2
    <2> DEFINE K == [heap EXCEPT ![c][o] = l]
    <2>2. l \in S!Lease /\ S!SaveCall(c, l) \in S!Calls
      BY CallTypes, MemoryStoreAssumption DEF S!Lease
    <2>3. leases' = leases /\ freed' = freed /\ allocated' = allocated /\ ok' = ok
      BY <1>4 DEF BeginSaveNew, SamePurge
    <2>4. o \in Object /\ o # leases[c]
      BY Types DEF Object, Nil
    <2>5. K \in [Clients -> [Object -> S!Lease]]
          /\ \A d \in Clients, p \in Object : p = leases[d] => K[d][p] = heap[d][p]
      BY <1>1, <2>2, <2>4
    <2>6. Collect(K)
      BY <2>1
    <2> HIDE DEF K, o
    <2>7. \A d \in Clients :
            leases[d] # Nil => heap'[d][leases[d]] = heap[d][leases[d]]
      BY <2>3, <2>5, <2>6, Collected, Types
    <2>8. Bar' = Bar
      BY <2>3, <2>7, SameBar DEF Bar
    <2> QED
      BY <2>1, <2>2, <2>3, <2>8, AtomicBegin, Types DEF Call
  <1> QED
    BY <1>2, <1>3, <1>4

LEMMA AtomicAnswerStep ==
  ASSUME IInv, NEW c \in Clients, Lease(c) \/ AllocateIP(c) \/ FreeIP(c)
  PROVE  S!Next
  <1>1. /\ call' = [call EXCEPT ![c] = S!Idle] /\ c \in Procs
        /\ UNCHANGED <<heap, leases, freed>>
    BY Types DEF Lease, AllocateIP, FreeIP, Return, SamePurge
  <1>2. Bar' = Bar
    BY <1>1, SameBar DEF Bar
  <1>3. CASE AllocateIP(c)
    BY <1>1, <1>2, <1>3, AtomicAllocate DEF AllocateIP
  <1>4. CASE FreeIP(c)
    BY <1>1, <1>2, <1>4, AtomicFree DEF FreeIP
  <1>5. CASE Lease(c)
    <2>1. call[c].op = "Lease" /\ call[c].client = c /\ ClientOK(c) /\ freed[c].ips = {}
      BY <1>5 DEF Lease, LeasesMuFree, IInv, ClientOK, HandlerOK, PurgeOK
    <2>2. Bar[c] # NoLease <=> leases[c] # Nil
      BY <2>1 DEF Bar, Seen, ClientOK, HeapOK, NoLease
    <2>3. ok' = [ok EXCEPT ![c] = Bar[call[c].client] # NoLease]
      BY <1>5, <2>1, <2>2 DEF Lease
    <2> QED
      BY <1>1, <1>2, <1>5, <2>1, <2>3, AtomicLease DEF Lease
  <1> QED
    BY <1>3, <1>4, <1>5

\* Before the write, the lease of c is seen as the map has it, or it is not in
\* the map; then nothing is seen to happen.
LEMMA AtomicWriteStart ==
  ASSUME IInv, NEW c \in Clients, WriteStart(c)
  PROVE  S!Next \/ UNCHANGED S!vars
  <1> DEFINE l == call[c].lease
  <1>1. /\ call[c].op = "SaveLease" /\ call[c].client = c /\ ptr[c] \in Object
        /\ heap' = [heap EXCEPT ![c][ptr[c]] = l]
        /\ UNCHANGED <<leases, freed, allocated, call, ok>>
    BY Types DEF WriteStart, Saving, SamePurge, IInv, ClientOK, HandlerOK
  <1>2. heap \in [Clients -> [Object -> S!Lease]]
    BY DEF IInv, TypeOK
  <1>3. heap'[c][ptr[c]] = l /\ \A p \in Object \ {ptr[c]} : heap'[c][p] = heap[c][p]
    BY <1>1, <1>2
  <1>4. \A d \in Clients \ {c} : Seen(d)' = Seen(d)
    <2>1. \A d \in Clients \ {c} : heap'[d] = heap[d]
      BY <1>1, <1>2
    <2> QED
      BY <1>1, <2>1 DEF Seen
  <1>5. CASE freed[c].ips = {} /\ leases[c] = ptr[c]
    <2>1. Seen(c)' = l
      BY <1>1, <1>3, <1>5, Types DEF Seen
    <2>2. Bar' = [Bar EXCEPT ![call[c].client] = call[c].lease]
      BY <1>1, <1>4, <2>1 DEF Bar
    <2> QED
      BY <1>1, <2>2, AtomicSave, Types
  <1>6. CASE ~(freed[c].ips = {} /\ leases[c] = ptr[c])
    <2>1. Seen(c)' = Seen(c)
      BY <1>1, <1>3, <1>6, Types DEF Seen
    <2>2. Bar' = Bar
      BY <1>4, <2>1 DEF Bar
    <2> QED
      BY <1>1, <2>2, AtomicStutter
  <1> QED
    BY <1>5, <1>6

LEMMA AtomicMapStep ==
  ASSUME IInv, NEW c \in Clients, SaveLease(c) \/ DeleteLease(c)
  PROVE  S!Next
  <1>1. /\ call' = [call EXCEPT ![c] = S!Idle] /\ c \in Procs /\ Collect(heap)
        /\ freed' = freed /\ freed[c].ips = {} /\ call[c].client = c
        /\ allocated' = allocated /\ ok' = ok
        /\ \A d \in Clients \ {c} : leases'[d] = leases[d]
    BY Types
    DEF SaveLease, DeleteLease, Saving, Return, LeasesMuFree, SamePurge,
        IInv, TypeOK, ClientOK, HandlerOK, PurgeOK
  <1>2. heap \in [Clients -> [Object -> S!Lease]] /\ leases \in [Clients -> Object \cup {Nil}]
    BY DEF IInv, TypeOK
  <1>3. \A d \in Clients \ {c} : Seen(d)' = Seen(d)
    <2>1. \A d \in Clients \ {c} :
            leases[d] # Nil => heap'[d][leases[d]] = heap[d][leases[d]]
      BY <1>1, <1>2, Collected
    <2> QED
      BY <1>1, <2>1 DEF Seen
  <1>4. CASE SaveLease(c)
    <2>1. /\ call[c].op = "SaveLease" /\ heap[c][ptr[c]] = call[c].lease
          /\ leases'[c] = ptr[c] /\ ptr[c] \in Object
      BY <1>2, <1>4, Types DEF SaveLease, Saving, IInv, ClientOK, HandlerOK
    <2>2. heap'[c][ptr[c]] = call[c].lease
      BY <1>1, <1>2, <2>1, Collected
    <2>3. Seen(c)' = call[c].lease
      BY <1>1, <2>1, <2>2, Types DEF Seen
    <2>4. Bar' = [Bar EXCEPT ![call[c].client] = call[c].lease]
      BY <1>1, <1>3, <2>3 DEF Bar
    <2> QED
      BY <1>1, <2>1, <2>4, AtomicSave
  <1>5. CASE DeleteLease(c)
    <2>1. call[c].op = "DeleteLease" /\ leases'[c] = Nil
      BY <1>2, <1>5 DEF DeleteLease
    <2>2. Seen(c)' = NoLease
      BY <1>1, <2>1 DEF Seen
    <2>3. Bar' = [Bar EXCEPT ![call[c].client] = NoLease]
      BY <1>1, <1>3, <2>2 DEF Bar
    <2> QED
      BY <1>1, <2>1, <2>3, AtomicDelete
  <1> QED
    BY <1>4, <1>5

\* Until Purge ends, the leases it has deleted are still seen.
LEMMA AtomicPurgeStarts ==
  ASSUME IInv, PurgeLock \/ PurgeVisit PROVE UNCHANGED S!vars
  <1>1. heap \in [Clients -> [Object -> S!Lease]] /\ leases \in [Clients -> Object \cup {Nil}]
        /\ freed \in [Clients -> S!Lease] /\ todo \subseteq Clients
    BY DEF IInv, TypeOK
  <1>2. allocated' = allocated /\ call' = call /\ ok' = ok
    BY DEF PurgeLock, PurgeVisit
  <1>3. CASE PurgeLock
    <2>1. Bar' = Bar
      BY <1>3, SameBar DEF PurgeLock, Bar
    <2> QED
      BY <1>2, <2>1, AtomicStutter
  <1>4. CASE PurgeVisit
    <2>1. PICK c \in todo :
            \/ /\ leases' = [leases EXCEPT ![c] = Nil]
               /\ freed' = [freed EXCEPT ![c] = heap[c][leases[c]]]
            \/ leases' = leases /\ freed' = freed
      BY <1>4 DEF PurgeVisit
    <2>2. c \in Clients /\ leases[c] # Nil /\ freed[c].ips = {} /\ heap[c][leases[c]].ips # {}
      BY <1>1, <1>4 DEF PurgeVisit, IInv, ClientOK, PurgeOK, HeapOK
    <2>3. Collect(heap)
      BY <1>4 DEF PurgeVisit
    <2>4. \A d \in Clients :
            leases'[d] # Nil => heap'[d][leases'[d]] = heap[d][leases'[d]]
      BY <1>1, <2>1, <2>3, Collected
    <2>5. ASSUME NEW d \in Clients PROVE Seen(d)' = Seen(d)
      <3>1. CASE d = c /\ leases' # leases
        BY <1>1, <2>1, <2>2, <3>1 DEF Seen
      <3>2. CASE ~(d = c /\ leases' # leases)
        <4>1. leases'[d] = leases[d] /\ freed'[d] = freed[d]
          <5>1. CASE d # c
            BY <1>1, <2>1, <5>1
          <5>2. CASE d = c
            <6>1. leases' = leases
              BY <3>2, <5>2
            <6>2. leases # [leases EXCEPT ![c] = Nil]
              BY <1>1, <2>2
            <6> QED
              BY <2>1, <6>1, <6>2
          <5> QED
            BY <5>1, <5>2
        <4> QED
          BY <2>4, <4>1 DEF Seen
      <3> QED
        BY <3>1, <3>2
    <2>6. Bar' = Bar
      BY <2>5 DEF Bar
    <2> QED
      BY <1>2, <2>6, AtomicStutter
  <1> QED
    BY <1>3, <1>4

\* What Purge has deleted is what had expired when it began: nothing it left in
\* the map has been written over with an earlier time.
LEMMA AtomicPurgeEnds ==
  ASSUME IInv, PurgeSweep PROVE S!Next
  <1> DEFINE t == call[Purger].time
  <1> DEFINE gone == {c \in Clients : Bar[c] # NoLease /\ Bar[c].exp <= t}
  <1>1. /\ leasesMu = "Purge" /\ todo = {} /\ freed' = NoneFreed
        /\ allocated' = allocated \ UNION {freed[c].ips : c \in Clients}
        /\ call' = [call EXCEPT ![Purger] = S!Idle]
        /\ UNCHANGED <<heap, leases, ok>>
    BY DEF PurgeSweep, Return
  <1>2. call[Purger].op = "Purge" /\ t \in Nat /\ Purger \in Procs
    BY <1>1, Types DEF IInv, PurgerOK, Purging, S!Idle
  <1>3. ASSUME NEW c \in Clients
        PROVE  /\ c \in gone <=> freed[c].ips # {}
               /\ c \in gone => Bar[c] = freed[c] /\ leases[c] = Nil
    <2>1. /\ freed[c].ips # {} => leases[c] = Nil /\ freed[c].exp <= t
          /\ leases[c] # Nil => heap[c][leases[c]].exp > t
      BY <1>1 DEF IInv, ClientOK, PurgeOK
    <2>2. CASE freed[c].ips # {}
      <3>1. Bar[c] = freed[c] /\ freed[c] # NoLease
        BY <2>2 DEF Bar, Seen, NoLease
      <3> QED
        BY <2>1, <2>2, <3>1
    <2>3. CASE freed[c].ips = {}
      <3>1. Bar[c] = IF leases[c] = Nil THEN NoLease ELSE heap[c][leases[c]]
        BY <2>3 DEF Bar, Seen
      <3>2. leases[c] # Nil => heap[c][leases[c]].exp \in Nat
        BY Types
      <3> QED
        BY <1>2, <2>1, <2>3, <3>1, <3>2
    <2> QED
      BY <2>2, <2>3
  <1> HIDE DEF gone
  <1>4. Bar' = [c \in Clients |-> IF c \in gone THEN NoLease ELSE Bar[c]]
    <2>1. ASSUME NEW c \in Clients
          PROVE  Seen(c)' = IF c \in gone THEN NoLease ELSE Seen(c)
      BY <1>1, <1>3 DEF Seen, NoneFreed, NoLease
    <2> QED
      BY <2>1 DEF Bar
  <1>5. UNION {freed[c].ips : c \in Clients} = UNION {Bar[c].ips : c \in gone}
    <2>1. gone \subseteq Clients
      BY DEF gone
    <2> QED
      BY <1>3, <2>1
  <1> QED
    BY <1>1, <1>2, <1>4, <1>5, AtomicPurge DEF gone

LEMMA StepOfStore == IInv /\ [Next]_vars => [S!Next]_(S!vars)
  <1> SUFFICES ASSUME IInv, [Next]_vars PROVE S!Next \/ UNCHANGED S!vars
    OBVIOUS
  <1>1. CASE UNCHANGED vars
    BY <1>1 DEF vars, S!vars
  <1>2. CASE Tick \/ BeginPurge
    BY <1>2, AtomicTick
  <1>3. CASE PurgeStep
    BY <1>3, AtomicPurgeStarts, AtomicPurgeEnds DEF PurgeStep
  <1>4. CASE \E c \in Clients : BeginCall(c) \/ BeginSaveNew(c) \/ BeginSaveRenewed(c)
    BY <1>4, AtomicCallStep
  <1>5. ASSUME NEW c \in Clients, HandlerStep(c) PROVE S!Next \/ UNCHANGED S!vars
    BY <1>5, AtomicAnswerStep, AtomicWriteStart, AtomicMapStep DEF HandlerStep
  <1> QED
    BY <1>1, <1>2, <1>3, <1>4, <1>5 DEF Next

-----------------------------------------------------------------------------

\* For any clients, addresses, lease duration and bound on the clock: the map,
\* its two mutexes and the leases that handlers change outside them are an
\* atomic store (store.go:166-211, handler.go:213).
THEOREM MemoryStoreIsAtomic == Spec => ImplementsStore
  <1>1. Init => S!Init
    BY DEF Init, S!Init, S!NoLease, NoLease, NoneFreed
  <1> QED
    BY <1>1, InitIInv, NextIInv, StepOfStore, PTL DEF Spec, ImplementsStore, S!Spec

\* For any clients, addresses, lease duration and bound on the clock: the map
\* only ever points to objects, and calls carry what SaveLease is given.
THEOREM MemoryStoreTyped == Spec => []TypeOK
  <1>1. IInv => TypeOK
    BY DEF IInv
  <1> QED
    BY <1>1, InitIInv, NextIInv, PTL DEF Spec

=============================================================================
