# wgipamd in TLA+

wgipamd is an IP address management daemon for the wg-dynamic protocol: WireGuard
clients connect, ask for addresses, and are given a lease. This directory holds
TLA+ modules that model its core, TLC configurations that check them on small
instances, and proofs checked by TLAPS for every instance. Paths below are
relative to the repository's root.

## Inventory

| Component | Source | State | Operations |
|---|---|---|---|
| `simpleIPAllocator` | `ipallocator.go` 201-381 | subnet, cursor, mutex | construct, `Allocate`, `Free` |
| `multiIPAllocator` | `ipallocator.go` 46-199 | allocators per family | `Allocate` (with rollback), `Free` |
| `Handler` | `handler.go` | none of its own; one goroutine per connection | `RequestIP`: look up, renew, clean up, new lease |
| `Store` | `store.go` 38-95, `lease.go` | leases by client key, allocated addresses by subnet | `Lease`, `SaveLease`, `DeleteLease`, `Purge`, `SaveSubnet`, `AllocateIP`, `FreeIP` |
| `memoryStore` | `store.go` 104-302 | two maps under two RW mutexes | the same |
| `boltStore` | `store.go` 310-603 | bbolt file; RW mutex over the subnets of this run | the same, one transaction each |
| purge loop | `internal/wgipamd/server.go` 178-195 | ticker, time of the last tick | `Purge` now, then at each tick |
| `metricsIPStore` | `metrics.go` 64-173 | gauges per subnet | wraps `AllocateIP`, `FreeIP`, `Purge` |
| `allocatableSize` | `metrics.go` 175-227 | none | pure |
| `Server` | `internal/wgipamd/server.go` | errgroup, listeners, stores | start-up, serving, shutdown on a cancelled context |
| wg-dynamic server | `vendor/.../wgdynamic-go/server.go` | listener, WaitGroup, mutex | `Serve`, `Close` |
| configuration | `internal/config/config.go` | none | `Parse`, `checkSubnets` |
| HTTP debug API | `http.go` | none | reads of the stores |
| `cmd/wgipamd`, `wgipamtest` | | none | I/O; a test suite |

**How they interact.** The wg-dynamic server runs `Handler.RequestIP` in a goroutine
per connection. The handler reads and writes leases through `Store` and asks
`multiIPAllocator` for addresses, which visits one `simpleIPAllocator` per subnet;
each proposes addresses from its cursor and `Store.AllocateIP` accepts or rejects
them. The purge loop deletes expired leases and frees their addresses behind the
backs of both. There is no lock above the store: what ties a lease to its
addresses is only the order of the calls.

**What is hard.** The walk of the cursor over a range with holes, across calls;
handlers that act on a lease they looked up some time ago; the purge loop
running with the time of an old tick; allocations over several subnets that
fail half way; operations that fail or a process that dies between two
operations that belong together; two requests of one client in flight;
shutdown while requests are served.

**What makes each part correct.** The allocator hands out only addresses that its
configuration allows, says "no more" only when there are none, and always
returns. The handler gives no address to two clients, honours leases until they
expire, saves whole leases only, loses no address, and answers. The purge loop
removes what expired and nothing else. The store keeps a lease and its addresses
together, over restarts. Metrics agree with the store. The server starts, serves
and stops without using what is closed.

PROJECT.json lists the hazards line by line, with the properties that watch them.

## Modules

| Module | Contents |
|---|---|
| `SimpleIPAllocator` | one subnet's allocator, statement by statement, against concurrent frees |
| `MCSimpleIPAllocator` | every configuration of a subnet of four addresses, in classes |
| `SimpleIPAllocatorProofs` | its invariants and action properties, and its refinement of `IPPool`, proved |
| `AscendingProofs` | what still holds where configurations are not orderly, that every call comes to an end, and that the size of a subnet is right, proved |
| `IPPool` | abstract: what the callers of one subnet's allocator may rely on |
| `SubnetSize` (extends `SimpleIPAllocator`) | `allocatableSize` and `ipaddr.Summarize`, compared with `Allocatable` |
| `Store` | the store's operations as its callers see them |
| `AtomicStore` (extends `Store`) | abstract: concurrent calls, each taking effect at one instant |
| `MemoryStore` | `memoryStore`'s mutexes, its shared `*Lease` objects and its purge lease by lease |
| `MCMemoryStore` | two clients and the purge loop over one address |
| `MemoryStoreProofs` | `MemoryStore` implements `AtomicStore`, proved |
| `Config` | what `config.Parse` accepts as the subnets of an interface |
| `FileStore` (extends `Config`) | `boltStore` and the gauges beside it, over restarts with other subnets |
| `MCFileStore` | two clients, a block of two addresses and its halves |
| `FileStoreProofs` | what leaks and what cannot deadlock, proved |
| `FileCountProofs` | what is recorded and what the gauges show, proved |
| `Handler` (extends `Store`) | handlers, multi-subnet allocation, purge loop, clock, faults, crashes |
| `LeaseService` | abstract: what a client may rely on, a lease and how it may change |
| `MCHandler` | two clients, two goroutines, an IPv4 and an IPv6 subnet or two IPv4 ones |
| `HandlerProofs` | exclusiveness of addresses, proved |
| `LeaseProofs` | leases are whole, honoured and never leaked, and `Handler` implements `LeaseService`, proved |
| `Server` | the daemon's start-up, serving and shutdown, with the wg-dynamic server's `Serve` and `Close` |
| `MCServer` | up to two interfaces, three connections |
| `ServerProofs` | orderly shutdown, proved |

`SimpleIPAllocator` and `Handler` meet at `Allocate` on one subnet: one step in
`Handler`, a whole call in `SimpleIPAllocator`, which `IPPool` justifies. `Handler` and
the stores meet in `Store`: `Handler` takes its operations for single steps,
`AtomicStore` is the same operations called concurrently, and `MemoryStore` implements
that; in `FileStore` every operation is a transaction. `Handler` and `Server` meet at
the request and the store: a request is a whole behaviour of a goroutine in
`Handler`, and one that is `using` its store in `Server`.

### SimpleIPAllocator

An address is a natural number, a subnet is `first..last`, `Nil` is Go's nil. `sub`
is the configuration (never changed after construction); `curr` is where the
`ipaddr.Cursor` stands; `p`, `next`, `i`, `out` are the locals of `Allocate`; `pc` is
the place of the goroutine that holds the mutex, so one `pc` serves any number of
callers. The actions are the pieces of `Allocate` between two points where another
goroutine can be seen: `Lock`, `Pos` (line 277), one `Scan` per reserved address
(282-294), `TryNext` / `Wrap` / `ReturnFalse` (296-310), and the three answers of
`IPStore.AllocateIP` (312-326). `Panic` is the nil dereference at line 284 or 315.
`Free` takes no mutex in the code and is enabled between any two of them. `Init`
lets the store hold any addresses, as a file from an earlier run may.

`After` and `Moved` are `Cursor.Next` of the vendored `ipaddr` package: at the last
address it returns nil and stays.

`snap` and `exhausted` are history variables that no action reads: the store as it
was when the call locked, and whether some call has returned false.

`IPPool` says what a caller sees of all this: a call begins, and later takes some
free address of the pool, or refuses because the pool was full when it began, or
fails; addresses are freed at any time. `ImplementsPool` maps the pool to
`Allocatable(sub)`, a call to `pc # "idle"` and `full` to what `snap` says.

`PoolUntilExhausted` asks for the same steps of the other configurations, up to the
first call that returns false; `NoPanicUntilExhausted` says that there is no nil
dereference before that. `EveryStepCounts` is about single steps: `Work` is the rounds
a call has before it, the addresses from the next position to the end of this one,
and the steps left at this position, and each step ends the call or makes `Work`
smaller in lexicographic order, whatever frees race with it.

`SubnetSize` is `allocatableSize` (`metrics.go` 175-227). The loop of `Summarize` and the
loop over its prefixes are one recursive function (`SizeOfRange`): from an address on,
the largest prefix that fits (`SummarizeNext`), its size less the reserved addresses
found in it, and the same from the address after it. `SizeIsCount` compares it with
the number of addresses `Allocate` may hand out.

### Store and Handler

`leases` maps every client to its lease (`NoLease` if it has none); `allocated` is the
union of the subnets' address sets, which do not overlap (`config.checkSubnets`).
Every `Store` operation is one action because both implementations make it so: a
bbolt transaction, or a critical section, `memoryStore.Purge` holding both locks.

In `Handler`, `h[g]` is the state of goroutine `g`: its place, the client and the
request it serves, and the lease it works on, `ips` and `exp` (the local `l` of
`requestIP`, or `ips` of `newLease`). Every store operation is one action, with a
second disjunct for its failure, so that other goroutines, the purge loop and a
crash can come between any two. `Allocate` on one subnet takes *any* free address
of it or finds none: it relies on `SimpleIPAllocator` for the rest.

Time is an integer number of seconds. `timeNow` (store.go:606) truncates to the
second, and lease durations are assumed to be whole seconds, so a lease expires
at a whole second and comparing seconds loses nothing. `Tick` may happen at any
time or never.

The purge loop (`server.go` 179-195) purges with `purgeT`; its ticker's channel holds
one tick, `tick`; more are dropped, as `time.Ticker` does. A tick may be old when
the loop gets to it.

A crash forgets the goroutines and the loop, and keeps `leases` and `allocated`: the
file store. With the in-memory store a crash loses everything, which is `Init`
again.

`released` is a history variable: the addresses that were freed while a lease or a
handler still held them. It marks the two races found below, and lets `Exclusive`
say what remains true around them. So is `madeFor`, with its copy `fams` in `h`: the
families that each saved lease was made for. A renewal keeps it, whatever the
renewing request names. `WholeLease` compares a lease with it: `WholeLeases[F]` holds
the sets of addresses with one of each subnet of the families `F`, and at least one.

`LeaseService` says what a client sees of all this: there is a lease for each client
and a clock. `Grant` gives a client without a lease, or with an expired one, a lease
that is whole for some families (`WholeLeases[F]`, recorded in `madeFor`), lasts
`LeaseDuration` at most and has no address of another client's lease; `Renew`
prolongs an unexpired one with the addresses it has; `Forget` drops leases that have
expired. Nothing else happens to a lease. `contested` is what the two races found
below cost: addresses that had an expired lease when they were freed under a
handler, and which two leases may share from then on. `ImplementsLeasing` maps it to
`released`, and `Save`, `DeleteExpired` and `Purge` to these actions; what handlers
do between two store operations, faults and crashes are stutters. It is stated for
clients with one request at a time.

### AtomicStore and MemoryStore

`AtomicStore` is the specification of a `Store` for concurrent callers: `call[q]` is the
call goroutine `q` is in, `Complete` is its effect and its return, `ok` its answer.
`SeenEarly` lets a lease that is being saved be seen before the call returns.

`MemoryStore` is `store.go` 97-302 with its callers. The map holds pointers, so `leases`
maps a client to an object of `heap` or to `Nil`, and `ptr` is the object its handler
got from `Lease` or made for a new lease. `WriteStart` is `l.Start = timeNow()`
(`handler.go` 213), without a lock; `SaveLease` then puts the pointer into the map.
Every other operation is one critical section, one step that needs its mutex free.
`Purge` is the exception: `PurgeLock` takes `leasesMu`, `PurgeVisit` is one turn of its
iteration, `PurgeSweep` frees the addresses under both mutexes and returns. `freed`
keeps what it has deleted so far.

The refinement: until `PurgeSweep` the leases in `freed` still count as saved, since
nobody can look while `leasesMu` is held; otherwise a lease is what its object holds.
The interesting case is a renewal whose `WriteStart` meets a running Purge: if Purge
has deleted the lease, the write goes to an object nobody sees, and `SaveLease` waits
for the mutex and saves it again, as a whole; if not, the new expiry can only be
later, so Purge's choice stands.

### Config, FileStore

A subnet is a prefix, represented by the set of its addresses; any two prefixes are
nested or apart. `CheckSubnets` is `checkSubnets` with `Overlaps` of the vendored
`ipaddr` package.

`FileStore` is `boltStore` from one start of the daemon to the next. The file is
`leases` and `buckets`, a function from the prefixes that have a bucket to the
addresses recorded there. `cfg` is the configuration of this run, and the first
`saved` of its subnets are in `s.subnets`. `SaveSubnetLock` / `SaveSubnetCommit` take
`s.mu` and then bbolt's writer lock, `PurgeBegin` / `PurgeCommit` the other way round;
`PurgeFails` rolls back. Every other operation is one write transaction. Handlers run
as in `Handler`, one per client, a subnet at a time. Their writes may fail, which changes
nothing in the file and different things in the handler. If allocating fails, or finds
the subnet full, what was allocated is given back (`GiveUp`). If `SaveLease` fails for a
new lease, the error is returned and the addresses stay allocated (`SaveFails`). A
failing `DeleteLease` is logged and the addresses are freed all the same (`DeleteFails`).
A failing free is logged in the clean-up of an expired lease, and ends a rollback
(`FreeFails`). A renewal that is refused or not saved leaves all as it was (`RenewFails`).
`Restart` forgets the process and picks any accepted configuration: the daemon was
stopped, or crashed, and `default.toml` was edited.

`FreeIPs` is shared by `FreeIP` and `Purge`: the address is deleted from the bucket of
the configured subnet that contains it, if one does, and taken off that gauge whether
it was there or not (`metrics.go` 148-173). `gauge` is counted from the file at every
start (`CountedIn`, `metrics.go` 118-133).

`lost` and `released` are history variables. `lost` has the bucket entries that were let
go of and not deleted: by a crash, by a `SaveLease` or a free that failed, or by a free
while their subnet was not configured. `released` has the addresses freed for a client
that still held them.

### Server

`run` and `k` say where `Server.Run` is and which interface it is starting; `closer`,
`serve` and `purge` are the three goroutines `runServer` starts for each interface
(`server.go` 169-195); `ctx` is the errgroup's context, cancelled by a signal, by a
goroutine that fails, or by `eg.Wait`. A store or a listener is `none`, `open` or
`closed`. A connection goes from `dialed` (in the listener's queue) over `accepted`
(returned by `Accept`, not yet counted), `reading` and `using` (counted by the
WaitGroup) to `done`.

`Serve` and `Close` follow the vendored wgdynamic package: `Serve` stores its
listener under the mutex (`StoreListener`) and takes it again to count a connection
(`Count`); `Close` takes it, closes the listener (`Close`), waits for the count to drop
to zero while holding it, and returns (`CloseReturns`). So the connection that
`Accept` had already returned is counted, and served, only after `Close` has
returned. `CloseNil` is a `Close` that comes before `StoreListener`.

`StartFails` stands for every early return of `Run` and `runServer`. `RegisterTwice` is
the panic of `MustRegister` for the second interface, after its store and listener
have been opened. When the process ends, every action stops with it.

## Runs

Every run was chosen for a question. Violations are findings, explained after the
table.

| Run | Question | Answer |
|---|---|---|
| `allocator_ordered` | is the allocator right for the configurations it is written for (`Orderly`: reserved ascending, no end before the last address, last address not reserved)? | yes: no reserved address is leased, `FalseMeansFull`, no panic, every call returns, and it implements `IPPool`; the size shown is right |
| `allocator_ascending` | what holds for any start and end, with reserved addresses ascending inside them? | reserved addresses are skipped and no call goes on for ever; until a call returns false the allocator does not panic, keeps to the range and is the pool of `IPPool`, so that this call is right (panics happen afterwards, so deadlock is not checked); the size shown is right |
| `allocator_past_end` | is the range kept afterwards? | **no** |
| `allocator_panic` | is the shape of the shipped configuration free of nil dereferences? | **no** |
| `handler_safe` | leases and addresses with purge, one fault or crash, one request per client at a time | `Exclusive`, `NoLeak`, `WholeLease`, `LeaseHonoured`, `UnexpiredKept`; the daemon implements `LeaseService` |
| `handler_overlap` | what is left when a client's retry overlaps its first request, allocations span two subnets, and some requests name a family no subnet serves? is every request answered, every expired lease removed? | `Exclusive` and `WholeLease` still hold, so no partial or empty lease is saved; `RequestAnswered`, `ExpiredPurged` |
| `handler_backed` | is every address of a saved lease allocated, and to that lease only? | **no** |
| `memory_store` | is `memoryStore` atomic, though renewals change leases in place and Purge deletes one by one? does every call return? | yes: `ImplementsStore`, `CallsReturn` |
| `file_store` | over restarts with other subnets and failing writes: is what is held recorded, what leaks, is the gauge right, do the two locks block each other? | `HoldersRecorded`, `LeaksKnown`, `GaugeExact`, `StartsAndPurges` |
| `file_reconfigured` | is an address that is still leased safe from being leased again after a restart with other subnets? | **no** |
| `server_stop` | does the daemon come down as a whole, with its stores closed last? | yes: `AtMostOneLate`, `StoreOutlivesLoops`, `Stops` |
| `server_late` | has every request been completed when `Close` returns? | **no** |

### What the violations show

* `allocator_past_end`: when `Allocate` returns false it leaves the cursor one past
  `end`. The next call starts there; comparing `next` with `end` for equality (line
  296) never succeeds before the last address of the subnet, so addresses beyond
  `end` are leased. When the second pass then meets `end` it returns false without
  trying it, so a free address can also be missed.
* `allocator_panic`: if the last address of the subnet is reserved, an exhausted call
  leaves the cursor on it. In the next call `Pos` is that address and `Next` is nil;
  the scan replaces `p` by nil and line 315 dereferences it in a goroutine nobody
  recovers: the daemon dies. `internal/config/default.toml` has this shape.
* `handler_backed`: a handler looks up a lease just before it expires; it expires, the
  purge loop deletes it and frees its addresses; the handler saves the renewed
  lease, whose addresses are free and go to the next client as well. The clean-up of
  an expired lease (`handler.go` 128) comes to the same another way: the purge loop
  has freed the addresses and another client has been leased one of them when the
  handler frees it.
* `file_reconfigured`: a bucket is named by its subnet's CIDR string. After a restart
  with the subnet grown, shrunk or split, leases are kept and renewed, but the new
  subnet's bucket is empty: `AllocateIP` hands out addresses that are leased, although
  `store.go` 577 says that the key exists "so that other callers can't reserve the
  same address". Only the number of holders stays bounded, by the number of buckets
  (`HoldersRecorded`).
* `server_late`: "Close closes the server listener and waits for all requests to
  complete" (`wgdynamic-go/server.go` 93). But `Serve` counts a connection after `Accept`
  has returned it, under the mutex that `Close` holds while it waits. So a connection
  that was accepted just before is counted, and its request served, after `Close` has
  returned, while `Run` closes the store. It is never more than one for each interface:
  that is `AtMostOneLate`.

Known from the code and kept out of the runs, because a configuration or a
fairness assumption excludes them:

* reserved addresses that are not listed in ascending order: the scan compares each
  one once, in list order, and can let a reserved address through. `Validate` accepts
  such lists; `Ascending` excludes them.
* a reserved address just after `end`: the scan carries `next` over the position where
  the walk should have stopped. `MCAscending` asks for reserved addresses in range.
* a second interface: `IPStoreMetrics` registers its gauges once per interface, under
  the same names, in the one registry of the `Server`, and the second `MustRegister`
  panics. It is `RegisterTwice` in `Server`; `server_stop` goes through it and only asks
  that the daemon then ends.
* `Purge` "frees the IP addresses associated with the leases" (`store.go` 42-43), but not
  those of subnets that are not configured in this run: the lease is deleted and
  nothing else will ever free them. They are in `lost`, which `LeaksKnown` excludes.
* addresses are leaked when `SaveLease` fails after `Allocate`, when a free fails in the
  clean-up or in a rollback, or by a crash: the code makes no attempt to recover them.
  `NoLeak` excludes faults altogether; `LeaksKnown` says that there are no other leaks.
* after a double free the `ips_allocated` gauge is too low until the next start.
  `GaugeExact` excludes it through `released`.
* two requests of one client in flight with `memoryStore`: both handlers change the one
  object, and the later write of `Start` can carry the earlier time. `MemoryStore` has
  one handler per client.
* the context cancelled before `Serve` has stored its listener: `Close` dereferences
  nil. In `server_stop` the process then ends, which satisfies `Stops`.
* a client that connects and stays silent keeps `Close`, and the shutdown, waiting:
  `handle` sets no deadline. `ClientFairness` excludes it.

With `Overlap = TRUE` a handler that found an old lease expired can also delete the
new lease its client got through another connection; that is why `LeaseHonoured`,
`UnexpiredKept` and `NoLeak` are stated for one request per client at a time.

### Bounds, and why they are enough

* Allocator: four addresses and lists of at most three reserved ones give every
  relative position of start, end, reserved runs, cursor and wrap; the proofs
  remove the bound. The store starts with any subset,
  so long histories of calls are not needed to fill it.
* Handler: two clients and two goroutines, since every race known is between two
  holders of one address and the purge loop; a subnet per family, so that an
  allocation may fail half way; one address per subnet, so that exhaustion and
  reuse happen at once. The proofs of `Exclusive` and
  `ImplementsLeasing` remove all these bounds.
* `handler_overlap` has two IPv4 subnets of one address each: families without a subnet
  occur, an allocation can fail half way, and every second one finds the pool
  exhausted. `LeaseDuration` and `MaxTime` are 1, enough for a lease to expire and to be
  replaced or purged. It uses no symmetry, because it checks liveness.
* `LeaseDuration` 2 and `MaxTime` 3: a lease can be renewed before it expires and
  purged at the very second, with time left for its addresses to be leased again.
* `MaxFaults` 1: one failed operation or crash anywhere; `handler_backed` needs none.
* `memory_store`: two clients, so that one renews while the other's lease is purged, and
  the iteration over the map has an order; one address, which is contended; a clock
  that moves once, enough for a lease of duration 1 to expire between any two steps.
  Every client has a handler that makes any sequence of calls. The proof of
  `MemoryStoreIsAtomic` removes these bounds.
* `file_store`: a block of two addresses and its halves are the smallest prefixes that
  can be grown, shrunk, split and merged; at most two subnets at a time. `MaxFaults` 2:
  two restarts give three configurations in a row, so that a subnet can go and come
  back; a restart before or after a write that fails; or two failing writes.
  The proofs of `HoldersRecorded`, `LeaksKnown` and `GaugeExact` remove these bounds.
  `file_reconfigured` needs one restart and no clock.
* Server: two interfaces, since a third one never gets further than the second, and
  three connections: one that is answered, one that `Close` waits for, one that is
  accepted too late. The proof removes both bounds. `server_late` needs one of each.
* Symmetry over clients and goroutines in `handler_safe` and `handler_backed` only.

### Fairness

`AllocateReturns` assumes weak fairness of `AllocateStep`: a goroutine inside
`Allocate` is never blocked on anything but store calls, which return, and the Go
scheduler runs it. Nothing is assumed of `Lock` or `Free`.

`RequestAnswered` and `ExpiredPurged` assume weak fairness of every goroutine's step, of the
purge loop and of the ticker: none of them waits for another for ever, since a
store operation holds its lock or transaction for its own duration only. Arrivals,
faults, crashes and the clock are not fair. `MaxFaults` makes failures finite:
a store that fails for ever purges nothing, and no purge could be promised.

`CallsReturn` assumes weak fairness of the purge loop, whose `leasesMu` nobody else keeps
from one step to the next, and strong fairness of every handler's step: a handler
that waits for `leasesMu` finds it free again and again between purges, and
`sync.RWMutex` starves neither readers nor writers.

`StartsAndPurges` assumes weak fairness of the start-up and of a purge that runs.
Restarts are bounded by `MaxFaults`: a daemon restarted for ever need not come up.

`Stops` assumes weak fairness of `Run`, of the closer and server goroutines and of
`Answer`, and of `Purge`: all can run once enabled. `PurgeReturns` is strongly fair: with
the context cancelled and a tick waiting, Go's `select` picks one at random, so the
context wins in the end. `ClientFairness`, that clients send their request or hang
up, is an assumption about the environment that the code does nothing to ensure.
Failures, signals and new connections are not fair.

## Proofs

`SimpleIPAllocatorProofs` assumes `SubnetsAssumption` (configurations pass
`Subnet.Validate`) and that all of them are `Orderly`, and proves for subnets and
reserved lists of any size:

* `AllocateSound`: `TypeOK`, `NoPanic` and `FalseMeansFull`;
* `AllocateSkipsReserved`: `ReservedNeverUsed`;
* `AllocatorIsPool`: `ImplementsPool`, the refinement of `IPPool`.

None of these is inductive. The strengthening says where the positions are
relative to the cursor (`Positions`: `p < next = curr`, or `next` nil and `p` last), that
the scan has moved them off every reserved address it has compared (`Skipped`,
which needs the ascending order: what was stepped onto is larger than what was
compared), that no nil `p` can arise because the last address is not reserved
(`TryIsAllocatable`), and what this call has already tried (`Covered`: every
allocatable address from the start of the pass to `p` was in the store at `Lock`).
The last gives `FalseMeansFull`: the second pass starts at `StartOf` and covers the range.
For the refinement every step is matched with one of the pool or a stutter, from
the same invariant: `TryAllocate` takes an address that is in the pool because it is
in range and not reserved, `ReturnFalse` refuses because the pool was full.

`AscendingProofs` drops most of `Orderly`. It assumes `SubnetsAssumption` and that
`Reserved` ascends, for any start and end and with the last address reserved or not, so
the nil dereference and the walk past the end that the violations show are among its
behaviours:

* `AscendingSkipsReserved`: `ReservedNeverUsed` holds all the same. The invariant (`AInv`)
  is `Positions` and `Skipped` with a `p` that may be nil;
* `AscendingKeepsRange`: `InRangeUntilExhausted`, where in addition `Reserved` lies in
  start..end and something is left to lease (`AllRoomy`). The stop at one past the end
  compares for equality, so it works only if `next` never jumps over it. `RInv` shows
  that it does not: nothing allocatable lies between `p` and `next`, and when `p` is on a
  reserved address everything allocatable lies beyond it (`Before`), so where `p` moves
  up to `next`, `next` is still in the range. This is lost when a call returns false: it
  leaves the cursor one past the end, where one is set;
* `AscendingRightUntilExhausted`: `NoPanicUntilExhausted` and `PoolUntilExhausted`, under the
  same assumptions. No reserved address is left for a nil `next`, since something
  allocatable lies beyond it. For the pool `FInv` adds what a call that has wrapped has
  established (`Covered`): the last allocatable address, and all those behind the walk,
  were in the store at `Lock`. The last one, since the step that wraps tries it
  (`LastOneIn`); the others, because the loop over `Reserved` steps over nothing
  allocatable. So the call that returns false has seen the whole range taken. The
  violations found in these configurations all need an exhausted call first.

It also proves, from `SubnetsAssumption` alone, so for every configuration that
`Validate` accepts, with unordered lists and calls that panic:

* `CallsComeToAnEnd`: `EveryStepCounts`, that `Work` is always a triple of natural numbers,
  and that their lexicographic order is well-founded. It follows that no call takes
  infinitely many steps: what `AllocateReturns` says, short of the fairness that makes
  a goroutine take its next step at all. The invariant (`VInv`) is the type invariant
  and that the cursor follows `next`;
* `SizeIsRight`: `SizeIsCount`, where in addition no list names an address twice
  (`AllDistinct`; `allocatableSize` takes off every entry, and `Validate` accepts
  repetitions). That there is always a prefix that fits, that it is not empty and that
  it stays in the range is enough to see that the prefixes cover the range, each
  address once (`RestSplits`). So the number of unreserved addresses from `a` to the
  end of the range solves the recursion of `SizeOfRange` (`CountsSolve`); it is the only
  solution, because two that differ would differ at some last address
  (`OneSolution`). Sizes are exact here, as they are in a `float64` up to 2^53.

`HandlerProofs` assumes `HandlerAssumption` (types of the constants) and proves `AddressesExclusive`: `TypeOK` and `Exclusive`, for any numbers of
clients, goroutines, addresses, subnets and faults, with overlapping requests.
The inductive invariant has two parts. `Core` is the plain types (`Types`), `Serving` (a
goroutine past `idle` serves a client) and `Exclusive`; `Bounded` has the bounds that
`TypeOK` adds to the types: no purge time from the future, no expiry later than
`LeaseDuration` from now. `Exclusive` ranges over what handlers hold as well as over saved leases, which makes it
inductive: a step that only drops or copies claims preserves it (`NoNewClaims`),
`AllocateIP` is the one step that adds a claim and its guard says that nobody has the
address, and a step that frees a claimed address puts it into `released`.

`LeaseProofs` builds on it and proves, for the same constants:

* `LeasesWhole`: `WholeLease`, also with overlapping requests. The invariant, `WInv`, says
  what a goroutine holds at each place (`Shape`): nothing, a part of a whole lease with
  one address for each subnet visited so far, or a whole one for the families of the
  request that it, or the lease it looked up, was made for;
* `LeasesHonoured`: `LeaseHonoured`; `UnexpiredKeepAddresses`: `UnexpiredKept`; `NothingLeaks`:
  `NoLeak`. These hold with one request per client at a time. Their invariant,
  `LInv`, has three parts: `Lone` (a client has one goroutine), `Informed`, and `NoOrphan`
  (without a fault an allocated address is in a lease or in the hands of a goroutine
  that will save it or free it). `Informed` is the heart: it says for each place what
  the goroutine's copy still has to do with the saved lease. A goroutine about to
  renew either has the lease as it is or the lease was purged; one that deletes,
  frees or allocates knows that its client has no unexpired lease;
* `DaemonLeases`: `ImplementsLeasing`, for clients with one request at a time, from the
  three invariants together. What is saved is granted or prolonged: `WInv` makes it
  whole, `Informed` says that an unexpired lease has the same addresses and no later
  expiry, `Exclusive` that no other lease has them. An address becomes contested only
  when a goroutine frees it while its client's lease, expired, has it still (after a
  deletion that failed), or when a purge frees it under a goroutine; `Lone` and
  `Exclusive` rule out every other holder.

`MemoryStoreProofs` assumes `MemoryStoreAssumption` and proves `MemoryStoreIsAtomic`, the
refinement of `AtomicStore`, for any clients, addresses and durations. The inductive
invariant says of every client what its handler is saving (`HandlerOK`: the object has
the same addresses and an expiry that is not later), that expiries lie in reach
(`HeapOK`), and what a Purge in progress has done (`PurgeOK`: what it deleted had
expired, what it visited and kept has not). From it `PurgeSweep` is shown to be the
atomic Purge: the leases that `AtomicStore` would delete now are exactly those in
`freed`. `WriteStart` maps to `SeenEarly` or, on an object nobody sees, to a stutter.

`FileStoreProofs` and `FileCountProofs` assume `FileStoreAssumption`: finitely many clients,
addresses and prefixes, and prefixes that are nested or apart. They prove, over any
number of restarts with any accepted configurations and of writes that fail:

* `OnlyKnownLeaks`: `LeaksKnown`. What a handler that is about to renew or delete has is
  only a copy of its client's lease, and after a `DeleteLease` that failed the lease is
  still there while the handler frees its addresses. So the invariant (`Accounted`) is
  about `Firm` claims: those of the handler where it has addresses to save or to free,
  those of the lease otherwise. `Copies` says how a copy relates to the lease;
* `LocksNotInACircle`: `SaveSubnet` never waits for the writer lock while a purge waits for
  `s.mu`, because every `SaveSubnet` comes before the first purge;
* `SubnetsApart`: the subnets of an accepted configuration share no address;
* `HoldersAreRecorded`: `HoldersRecorded`. It is inductive once it is known that a bucket
  holds addresses of its own subnet only and that configured subnets are apart: a
  free takes away one record at most, and at least one holder;
* `GaugesAreExact`: `GaugeExact`, from the previous one: in a subnet without exceptions
  every address that is freed has one holder and one record, so what is taken off
  the gauge, counted by client, is what goes from the bucket (`OwedOnce`);
* `FileStoreTyped`: `TypeOK`.

`ServerProofs` assumes `ServerAssumption` (there is an interface) and proves
`ShutdownOrderly`: `TypeOK`, `AtMostOneLate` and `StoreOutlivesLoops`, for any numbers of
interfaces and connections. The inductive invariant has two parts. `Life` says how
far start-up and shutdown have got: interfaces from `k` on have no goroutines yet, a
store is open only for goroutines that run, that are about to start or whose start
failed, and `run = "close"` means that all goroutines have ended; from it follows
`StoreOutlivesLoops`. `Late` says which connections `Serve` holds: at most one between
`Accept` and `wg.Add` (`OneInHand`, also a part of `TypeOK`), and the listener is closed once `Close` has begun. When
`CloseReturns` finds the WaitGroup at zero, the connection in hand is all that is left.

Only model-checked:

* the liveness properties `AllocateReturns`, `RequestAnswered`, `ExpiredPurged`, `CallsReturn`,
  `StartsAndPurges` and `Stops`: liveness under fairness is beyond the prover.

Of lists of reserved addresses that do not ascend (see "What the violations show") it
is only shown that calls come to an end and that the size of the subnet is right.

## Not modelled, and why

* Lease durations that are not whole, positive seconds: `config.Parse` accepts them;
  a lease of zero length is expired when it is saved.
* Two clients whose addresses hash to one key (`strKey`): clients are keys here.
* Subnets of 2^64 addresses and more: `allocatableSize` shows infinity.
* TOML parsing and the conversion of strings to addresses (`config.go`), logging, the
  wire protocol: I/O without state.
* The HTTP debug API: reads of the stores as JSON. It changes nothing and promises no
  consistency between its two reads. The listings of the stores (`Leases`, `Subnets`,
  `AllocatedIPs`) are modelled only where `IPStoreMetrics` uses them, as `CountedIn`.
* `HandlerMetrics`: counters nothing reads; likewise the `last_purge` time stamp.
* `wgipamtest`: a test suite that every `Store` is run through, one call at a time.

## Plan

Modelled, checked and proved as far as the tools go: the allocator of one subnet, the
handler over several, both stores, the gauges, the configuration of subnets, and the
life of the daemon. What a further step would take up:

1. Two handlers of one client on `memoryStore`, against an `AtomicStore` in which a
   Purge may delete a lease whose expiry moves back while it runs.
2. `Handler` with `FileStore` under it instead of `Store`: overlapping requests over a
   restart with other subnets.
