---------------------------- MODULE MemoryStore ----------------------------
(***************************************************************************)
(* memoryStore (store.go 97-302) under concurrent callers.  Its map holds  *)
(* pointers: the *Lease that a handler looked up is the one in the map,    *)
(* and renewLease (handler.go:213) changes it in place, without leasesMu,  *)
(* before it calls SaveLease; Purge reads it at the same time.  Purge      *)
(* deletes leases one by one under leasesMu and keeps that mutex until it  *)
(* has freed their addresses under subnetsMu.                              *)
(*                                                                         *)
(* Every other operation is one critical section of one mutex, hence one   *)
(* step that needs the mutex to be free; so is the sweep over the subnets  *)
(* at the end of Purge, which makes one set of all their addresses enough. *)
(* Callers may make any call at any time, but one client has one handler.  *)
(* On the 64-bit builds the word of a time.Time that timeNow changes is    *)
(* read as it was before or after a write, never half written.             *)
(***************************************************************************)
EXTENDS Naturals

CONSTANTS
  Clients, Addrs,
  Purger,         \* the purge loop; the other goroutines are the handlers,
                  \* each named by its client
  LeaseDuration,
  MaxTime         \* bound on the clock

ASSUME MemoryStoreAssumption ==
  /\ Purger \notin Clients
  /\ LeaseDuration \in Nat \ {0}
  /\ MaxTime \in Nat

Procs == Clients \cup {Purger}

\* The *Lease objects of one client: the one in the map and the one its
\* handler works on, when that is another one.
Object == {1, 2}
Nil == 0

NoLease == [ips |-> {}, exp |-> 0]

VARIABLES
  now,
  heap,       \* the contents of each client's objects
  leases,     \* the map: each client's object, or Nil
  allocated,  \* the allocated addresses, of all subnets
  call, ok,   \* the call each goroutine is in, and its last answer
  ptr,        \* the object each client's handler works on, or Nil
  leasesMu,   \* who holds leasesMu from one step to the next, if anyone
  todo,       \* Purge: the clients its iteration has yet to visit
  freed       \* Purge: the leases it has deleted, as they were

vars ==
  <<now, heap, leases, allocated, call, ok, ptr, leasesMu, todo, freed>>

\* The leases as they are seen by whoever gets leasesMu next: a Purge that
\* has not finished has not happened.
S == INSTANCE AtomicStore WITH
  Times <- 0 .. MaxTime + LeaseDuration,
  leases <- [c \in Clients |->
               IF freed[c].ips # {} THEN freed[c]
               ELSE IF leases[c] = Nil THEN NoLease
               ELSE heap[c][leases[c]]]

NoneFreed == [c \in Clients |-> NoLease]

Init ==
  /\ now = 0
  /\ heap = [c \in Clients |-> [o \in Object |-> NoLease]]
  /\ leases = [c \in Clients |-> Nil]
  /\ allocated = {}
  /\ call = [q \in Procs |-> S!Idle]
  /\ ok = [q \in Procs |-> FALSE]
  /\ ptr = [c \in Clients |-> Nil]
  /\ leasesMu = "free"
  /\ todo = {}
  /\ freed = NoneFreed

Call(q, f) ==
  /\ call[q] = S!Idle
  /\ call' = [call EXCEPT ![q] = f]

Return(q) == call' = [call EXCEPT ![q] = S!Idle]

\* Objects nobody points to any more are collected.
Collect(contents) ==
  heap' = [c \in Clients |->
             [o \in Object |-> IF o \in {leases'[c], ptr'[c]}
                                 THEN contents[c][o] ELSE NoLease]]

SamePurge == UNCHANGED <<leasesMu, todo, freed>>

Tick ==
  /\ now < MaxTime
  /\ now' = now + 1
  /\ UNCHANGED <<heap, leases, allocated, call, ok, ptr>> /\ SamePurge

-----------------------------------------------------------------------------
\* The handler of client c.

\* A call that is not the renewal of the lease just looked up.
BeginCall(c) ==
  /\ \/ Call(c, S!LeaseCall(c)) \/ Call(c, S!DeleteCall(c))
     \/ \E a \in Addrs : Call(c, S!AllocateCall(a)) \/ Call(c, S!FreeCall(a))
  /\ ptr' = [ptr EXCEPT ![c] = Nil]
  /\ UNCHANGED <<now, leases, allocated, ok>> /\ SamePurge
  /\ Collect(heap)

\* newLease makes a new object.
BeginSaveNew(c) ==
  \E a \in Addrs :
    LET l == [ips |-> {a}, exp |-> now + LeaseDuration]
        o == IF leases[c] = 1 THEN 2 ELSE 1
    IN /\ Call(c, S!SaveCall(c, l))
       /\ ptr' = [ptr EXCEPT ![c] = o]
       /\ UNCHANGED <<now, leases, allocated, ok>> /\ SamePurge
       /\ Collect([heap EXCEPT ![c][o] = l])

\* Mutant: a renewal adds to the old expiry.
BeginSaveExtended(c) ==
  /\ ptr[c] # Nil
  /\ LET l == heap[c][ptr[c]]
     IN Call(c, S!SaveCall(c, [l EXCEPT !.exp = @ + LeaseDuration]))
  /\ UNCHANGED <<now, heap, leases, allocated, ok, ptr>> /\ SamePurge

\* renewLease reads the clock and goes on with the object it looked up.
BeginSaveRenewed(c) ==
  /\ ptr[c] # Nil
  /\ Call(c, S!SaveCall(c, [heap[c][ptr[c]] EXCEPT !.exp = now + LeaseDuration]))
  /\ UNCHANGED <<now, heap, leases, allocated, ok, ptr>> /\ SamePurge

Saving(c) == call[c].op = "SaveLease"

\* l.Start = timeNow(), without any lock.
WriteStart(c) ==
  /\ Saving(c)
  /\ heap[c][ptr[c]] # call[c].lease
  /\ heap' = [heap EXCEPT ![c][ptr[c]] = call[c].lease]
  /\ UNCHANGED <<now, leases, allocated, call, ok, ptr>> /\ SamePurge

\* Mutant: Purge unlocks leasesMu when its iteration ends.
LeasesMuFreeEarly == leasesMu = "free" \/ todo = {}

LeasesMuFree == leasesMu = "free"

\* The handler keeps the object only if it finds the lease unexpired: that is
\* the earliest instant at which it may decide to renew it.
Lease(c) ==
  /\ call[c].op = "Lease"
  /\ LeasesMuFree
  /\ ok' = [ok EXCEPT ![c] = leases[c] # Nil]
  /\ ptr' = IF leases[c] # Nil /\ ~S!Expired(heap[c][leases[c]], now)
              THEN [ptr EXCEPT ![c] = leases[c]] ELSE ptr
  /\ Return(c)
  /\ UNCHANGED <<now, heap, leases, allocated>> /\ SamePurge

SaveLease(c) ==
  /\ Saving(c)
  /\ heap[c][ptr[c]] = call[c].lease
  /\ LeasesMuFree
  /\ leases' = [leases EXCEPT ![c] = ptr[c]]
  /\ ptr' = [ptr EXCEPT ![c] = Nil]
  /\ Return(c)
  /\ UNCHANGED <<now, allocated, ok>> /\ SamePurge
  /\ Collect(heap)

DeleteLease(c) ==
  /\ call[c].op = "DeleteLease"
  /\ LeasesMuFree
  /\ leases' = [leases EXCEPT ![c] = Nil]
  /\ Return(c)
  /\ UNCHANGED <<now, allocated, ok, ptr>> /\ SamePurge
  /\ Collect(heap)

AllocateIP(c) ==
  /\ call[c].op = "AllocateIP"
  /\ ok' = [ok EXCEPT ![c] = call[c].ip \notin allocated]
  /\ allocated' = allocated \cup {call[c].ip}
  /\ Return(c)
  /\ UNCHANGED <<now, heap, leases, ptr>> /\ SamePurge

FreeIP(c) ==
  /\ call[c].op = "FreeIP"
  /\ allocated' = allocated \ {call[c].ip}
  /\ Return(c)
  /\ UNCHANGED <<now, heap, leases, ok, ptr>> /\ SamePurge

HandlerStep(c) ==
  \/ WriteStart(c) \/ Lease(c) \/ SaveLease(c) \/ DeleteLease(c)
  \/ AllocateIP(c) \/ FreeIP(c)

-----------------------------------------------------------------------------
\* The purge loop.

BeginPurge ==
  /\ Call(Purger, S!PurgeCall(now))
  /\ UNCHANGED <<now, heap, leases, allocated, ok, ptr>> /\ SamePurge

Purging == call[Purger] # S!Idle

PurgeLock ==
  /\ Purging
  /\ LeasesMuFree
  /\ leasesMu' = "Purge"
  /\ todo' = {c \in Clients : leases[c] # Nil}
  /\ UNCHANGED <<now, heap, leases, allocated, call, ok, ptr, freed>>

\* One turn of the iteration, which visits the map in any order.
PurgeVisit ==
  /\ leasesMu = "Purge"
  /\ \E c \in todo :
       LET l == heap[c][leases[c]]
           gone == S!Expired(l, call[Purger].time)
       IN /\ todo' = todo \ {c}
          /\ leases' = IF gone THEN [leases EXCEPT ![c] = Nil] ELSE leases
          /\ freed' = IF gone THEN [freed EXCEPT ![c] = l] ELSE freed
  /\ UNCHANGED <<now, allocated, call, ok, ptr, leasesMu>>
  /\ Collect(heap)

\* Mutant: with nothing to free Purge returns without unlocking.
PurgeSweepKeepsLock ==
  /\ leasesMu = "Purge"
  /\ todo = {}
  /\ allocated' = allocated \ UNION {freed[c].ips : c \in Clients}
  /\ freed' = NoneFreed
  /\ leasesMu' = IF freed = NoneFreed THEN leasesMu ELSE "free"
  /\ Return(Purger)
  /\ UNCHANGED <<now, heap, leases, ok, ptr, todo>>

\* The sweep under both mutexes, which the deferred calls then unlock.
PurgeSweep ==
  /\ leasesMu = "Purge"
  /\ todo = {}
  /\ allocated' = allocated \ UNION {freed[c].ips : c \in Clients}
  /\ freed' = NoneFreed
  /\ leasesMu' = "free"
  /\ Return(Purger)
  /\ UNCHANGED <<now, heap, leases, ok, ptr, todo>>

PurgeStep == PurgeLock \/ PurgeVisit \/ PurgeSweep

Next ==
  \/ Tick \/ BeginPurge \/ PurgeStep
  \/ \E c \in Clients :
       BeginCall(c) \/ BeginSaveNew(c) \/ BeginSaveRenewed(c) \/ HandlerStep(c)

Spec == Init /\ [][Next]_vars

\* Goroutines run on, and a mutex that is free again and again goes to each
\* that waits for it: sync.RWMutex starves neither readers nor writers.
FairSpec ==
  /\ Spec
  /\ WF_vars(PurgeStep)
  /\ \A c \in Clients : SF_vars(HandlerStep(c))

-----------------------------------------------------------------------------

TypeOK ==
  /\ now \in 0 .. MaxTime
  /\ heap \in [Clients -> [Object -> S!Lease]]
  /\ leases \in [Clients -> Object \cup {Nil}]
  /\ allocated \subseteq Addrs
  /\ call \in [Procs -> S!Calls \cup {S!Idle}]
  /\ ok \in [Procs -> BOOLEAN]
  /\ ptr \in [Clients -> Object \cup {Nil}]
  /\ leasesMu \in {"free", "Purge"}
  /\ todo \subseteq Clients
  /\ freed \in [Clients -> S!Lease]

\* The map, the two mutexes and the shared *Lease together are an atomic
\* store: nobody sees a lease gone whose addresses Purge has yet to free, and
\* a renewal that Purge meets half way is purged whole or kept whole
\* (store.go:166-211, handler.go:213).
ImplementsStore == S!Spec

\* Every call returns, with purges going on for ever.
CallsReturn == \A q \in Procs : call[q] # S!Idle ~> call[q] = S!Idle

=============================================================================
