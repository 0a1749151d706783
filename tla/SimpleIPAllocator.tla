------------------------- MODULE SimpleIPAllocator -------------------------
(***************************************************************************)
(* The cursor-driven allocator of ipallocator.go (simpleIPAllocator): one  *)
(* subnet, one cursor, one mutex.  Allocate walks the cursor, skips the    *)
(* reserved addresses, wraps once at the end of the range and tries each   *)
(* address against the IPStore; Free goes straight to the store without    *)
(* the mutex, so it interleaves with every step of Allocate.               *)
(*                                                                         *)
(* Addresses are natural numbers (the 128-bit value of the address), a     *)
(* subnet is the interval first..last, and Nil stands for Go's nil.  Only  *)
(* one call of Allocate is ever between Lock and Unlock, so pc describes   *)
(* the goroutine that holds the mutex; "idle" means nobody holds it.       *)
(***************************************************************************)
EXTENDS Integers, Sequences

CONSTANT Subnets    \* the Subnet configurations to consider

Nil == -1

Subnet == [first: Nat, last: Nat, start: Int, end: Int, reserved: Seq(Int)]

\* What Subnet.Validate accepts, on intervals: start, end and the reserved
\* addresses lie in the subnet, and the range is not reversed.
Validate(s) ==
  /\ s.first <= s.last
  /\ s.start # Nil => s.start \in s.first .. s.last
  /\ s.end # Nil => s.end \in s.first .. s.last
  /\ s.start # Nil /\ s.end # Nil => s.start <= s.end
  /\ \A k \in DOMAIN s.reserved : s.reserved[k] \in s.first .. s.last

ASSUME SubnetsAssumption ==
  /\ Subnets \subseteq Subnet
  /\ \A s \in Subnets : Validate(s)

\* The position the cursor starts from and seeks back to.
StartOf(s) == IF s.start = Nil THEN s.first ELSE s.start

\* Mutant: the configured end is off by one.
EndOfLate(s) == IF s.end = Nil \/ s.end >= s.last - 1 THEN Nil ELSE s.end + 2

\* The position at which the cursor stops: one past the configured end, or
\* nil when no end is set or when end is the last address of the subnet.
EndOf(s) == IF s.end = Nil \/ s.end = s.last THEN Nil ELSE s.end + 1

ReservedIn(s) == {s.reserved[k] : k \in DOMAIN s.reserved}
LastOf(s) == IF s.end = Nil THEN s.last ELSE s.end

\* The addresses a configuration promises to use for leases.
Allocatable(s) == (StartOf(s) .. LastOf(s)) \ ReservedIn(s)

\* The configurations the scan of Reserved and the wrap are written for:
\* Reserved strictly ascending, no end before the last address, and the last
\* address of the subnet not reserved.
Ascending(s) ==
  \A j, k \in DOMAIN s.reserved : j < k => s.reserved[j] < s.reserved[k]

WholeTail(s) == s.end \in {Nil, s.last}

Orderly(s) == Ascending(s) /\ WholeTail(s) /\ s.last \notin ReservedIn(s)

VARIABLES
  sub,        \* the allocator's Subnet
  curr,       \* the address under the cursor
  allocated,  \* the addresses the IPStore holds for this subnet
  pc,         \* where the goroutine that holds the mutex is
  p, next,    \* its local positions
  i,          \* index of its loop over Reserved
  out,        \* has this call wrapped already?
  ret,        \* how the last call returned
  snap,       \* history: allocated when the current (or last) call locked
  exhausted   \* history: has some call returned false?

vars == <<sub, curr, allocated, pc, p, next, i, out, ret, snap, exhausted>>

\* Cursor.Next returns After(c), nil at the end, and leaves the cursor on
\* Moved(c).
After(c) == IF c = sub.last THEN Nil ELSE c + 1

\* Mutant: the cursor runs past the last address.
MovedPastLast(c) == c + 1

Moved(c) == IF c = sub.last THEN c ELSE c + 1

-----------------------------------------------------------------------------

\* A store kept on disk may already hold any addresses of the subnet.
Init ==
  /\ sub \in Subnets
  /\ curr = StartOf(sub)
  /\ allocated \in SUBSET (sub.first .. sub.last)
  /\ pc = "idle"
  /\ p = Nil /\ next = Nil /\ i = 1 /\ out = FALSE
  /\ ret = "none"
  /\ snap = allocated
  /\ exhausted = FALSE

\* Mutant: out keeps its value from the previous call.
LockKeepsOut ==
  /\ pc = "idle"
  /\ pc' = "pos"
  /\ ret' = "none"
  /\ snap' = allocated
  /\ UNCHANGED <<sub, curr, allocated, p, next, i, out, exhausted>>

Lock ==
  /\ pc = "idle"
  /\ pc' = "pos"
  /\ out' = FALSE
  /\ ret' = "none"
  /\ snap' = allocated
  /\ UNCHANGED <<sub, curr, allocated, p, next, i, exhausted>>

Pos ==
  /\ pc = "pos"
  /\ p' = curr
  /\ next' = After(curr)
  /\ curr' = Moved(curr)
  /\ i' = 1
  /\ pc' = "scan"
  /\ UNCHANGED <<sub, allocated, out, ret, snap, exhausted>>

\* Mutant: the cursor advances before p takes next's place.
ScanSwapped ==
  /\ pc = "scan"
  /\ i <= Len(sub.reserved)
  /\ p # Nil
  /\ LET hit == sub.reserved[i] \in {p, next}
     IN /\ p' = IF p = sub.reserved[i] THEN After(curr) ELSE p
        /\ next' = IF hit THEN After(curr) ELSE next
        /\ curr' = IF hit THEN Moved(curr) ELSE curr
  /\ i' = i + 1
  /\ UNCHANGED <<sub, allocated, pc, out, ret, snap, exhausted>>

\* Mutant: the loop ends at the first reserved address it meets.
ScanBreaks ==
  /\ pc = "scan"
  /\ i <= Len(sub.reserved)
  /\ p # Nil
  /\ LET r == sub.reserved[i]
         n == IF p = r THEN After(curr) ELSE next
         c == IF p = r THEN Moved(curr) ELSE curr
     IN /\ p' = IF p = r THEN next ELSE p
        /\ next' = IF n = r THEN After(c) ELSE n
        /\ curr' = IF n = r THEN Moved(c) ELSE c
        /\ i' = IF r \in {p, n} THEN Len(sub.reserved) + 1 ELSE i + 1
  /\ UNCHANGED <<sub, allocated, pc, out, ret, snap, exhausted>>

\* One iteration of the loop over Reserved: step p off the reserved address,
\* then step next off it.
Scan ==
  /\ pc = "scan"
  /\ i <= Len(sub.reserved)
  /\ p # Nil
  /\ LET r == sub.reserved[i]
         n == IF p = r THEN After(curr) ELSE next
         c == IF p = r THEN Moved(curr) ELSE curr
     IN /\ p' = IF p = r THEN next ELSE p
        /\ next' = IF n = r THEN After(c) ELSE n
        /\ curr' = IF n = r THEN Moved(c) ELSE c
  /\ i' = i + 1
  /\ UNCHANGED <<sub, allocated, pc, out, ret, snap, exhausted>>

Scanned == pc = "scan" /\ i > Len(sub.reserved)

AtEnd == next = Nil \/ next = EndOf(sub)

TryNext ==
  /\ Scanned
  /\ ~AtEnd
  /\ pc' = "try"
  /\ UNCHANGED <<sub, curr, allocated, p, next, i, out, ret, snap, exhausted>>

\* Mutant: out is not set.
WrapForever ==
  /\ Scanned /\ AtEnd /\ ~out
  /\ curr' = StartOf(sub)
  /\ pc' = "try"
  /\ UNCHANGED <<sub, allocated, p, next, i, out, ret, snap, exhausted>>

\* First time at the end: seek back to the start, then try p.
Wrap ==
  /\ Scanned
  /\ AtEnd
  /\ ~out
  /\ curr' = StartOf(sub)
  /\ out' = TRUE
  /\ pc' = "try"
  /\ UNCHANGED <<sub, allocated, p, next, i, ret, snap, exhausted>>

\* Second time at the end: no more addresses to provide.
ReturnFalse ==
  /\ Scanned
  /\ AtEnd
  /\ out
  /\ pc' = "idle"
  /\ ret' = "exhausted"
  /\ exhausted' = TRUE
  /\ UNCHANGED <<sub, curr, allocated, p, next, i, out, snap>>

\* IPStore.AllocateIP(p): allocated here, already allocated, or an error.
TryAllocate ==
  /\ pc = "try"
  /\ p # Nil
  /\ p \notin allocated
  /\ allocated' = allocated \cup {p}
  /\ pc' = "idle"
  /\ ret' = "ok"
  /\ UNCHANGED <<sub, curr, p, next, i, out, snap, exhausted>>

\* Mutant: the first address that is taken ends the call.
TryTakenGivesUp ==
  /\ pc = "try"
  /\ p # Nil
  /\ p \in allocated
  /\ pc' = "idle"
  /\ ret' = "exhausted"
  /\ UNCHANGED <<sub, curr, allocated, p, next, i, out, snap, exhausted>>

TryTaken ==
  /\ pc = "try"
  /\ p # Nil
  /\ p \in allocated
  /\ pc' = "pos"
  /\ UNCHANGED <<sub, curr, allocated, p, next, i, out, ret, snap, exhausted>>

TryError ==
  /\ pc = "try"
  /\ p # Nil
  /\ pc' = "idle"
  /\ ret' = "error"
  /\ UNCHANGED <<sub, curr, allocated, p, next, i, out, snap, exhausted>>

\* p.IP with p = nil is a nil pointer dereference, which no caller recovers.
Panic ==
  /\ p = Nil
  /\ pc = "try" \/ (pc = "scan" /\ i <= Len(sub.reserved))
  /\ pc' = "panic"
  /\ UNCHANGED <<sub, curr, allocated, p, next, i, out, ret, snap, exhausted>>

\* Free, or the store's Purge, called by another goroutine without the mutex.
Free(a) ==
  /\ pc # "panic"
  /\ allocated' = allocated \ {a}
  /\ UNCHANGED <<sub, curr, pc, p, next, i, out, ret, snap, exhausted>>

AllocateStep ==
  Pos \/ Scan \/ TryNext \/ Wrap \/ ReturnFalse
      \/ TryAllocate \/ TryTaken \/ TryError \/ Panic

Next == Lock \/ AllocateStep \/ \E a \in allocated : Free(a)

Spec == Init /\ [][Next]_vars

\* A goroutine inside Allocate is never blocked: the Go scheduler runs it on.
FairSpec == Spec /\ WF_vars(AllocateStep)

-----------------------------------------------------------------------------

TypeOK ==
  /\ sub \in Subnets
  /\ curr \in StartOf(sub) .. sub.last
  /\ allocated \subseteq sub.first .. sub.last
  /\ pc \in {"idle", "pos", "scan", "try", "panic"}
  /\ p \in (StartOf(sub) .. sub.last) \cup {Nil}
  /\ next \in (StartOf(sub) .. sub.last) \cup {Nil}
  /\ i \in 1 .. Len(sub.reserved) + 1
  /\ out \in BOOLEAN
  /\ ret \in {"none", "ok", "exhausted", "error"}
  /\ snap \subseteq sub.first .. sub.last
  /\ exhausted \in BOOLEAN

\* Allocate never dereferences a nil position: for a subnet that has nothing
\* left it returns false, as its comment says (ipallocator.go:47-49).
NoPanic == pc # "panic"

\* Only addresses inside start..end are ever handed out, whatever the calls
\* before did to the cursor.
NewAddressesInRange ==
  [][\A a \in allocated' \ allocated : a \in StartOf(sub) .. LastOf(sub)]_vars

\* A reserved address is never handed out.
ReservedNeverUsed ==
  [][\A a \in allocated' \ allocated : a \notin ReservedIn(sub)]_vars

\* Until the first call that returns false, the cursor keeps to start..end.
InRangeUntilExhausted ==
  [][~exhausted =>
       \A a \in allocated' \ allocated : a \in StartOf(sub) .. LastOf(sub)]_vars

\* Allocate returns false only when every allocatable address was taken when
\* it locked the mutex: frees that race with the scan can make it miss an
\* address freed meanwhile, never one that was free all along.
FalseMeansFull ==
  pc = "idle" /\ ret = "exhausted" => Allocatable(sub) \subseteq snap

\* Until the first call that returns false there is no nil dereference, also
\* where the last address is reserved: the loop leaves a reserved address only
\* for one below something it can lease (ipallocator.go:282-294).
NoPanicUntilExhausted == ~exhausted => pc # "panic"

\* What a call has before it: the rounds, the addresses of this round from the
\* next position on, and the steps at this one.
Ahead == IF pc = "scan" /\ next = Nil THEN 0 ELSE sub.last - curr + 1

StepsHere ==
  CASE pc = "scan" -> Len(sub.reserved) - i + 3
    [] pc = "try"  -> 1
    [] OTHER       -> 0

Work == <<IF out THEN 0 ELSE 1, Ahead, StepsHere>>

Less(v, w) == \E j \in 1 .. 3 : v[j] < w[j] /\ \A l \in 1 .. j - 1 : v[l] = w[l]

\* A call cannot go on for ever, however many frees race with it and in
\* whatever configuration: each of its steps ends it or leaves it less to do
\* (the loop of ipallocator.go:277).
EveryStepCounts ==
  [][pc # "idle" => pc' \in {"idle", "panic"}
                    \/ Less(Work', Work)]_<<curr, pc, p, next, i, out>>

\* To its callers the allocator is a pool of its allocatable addresses: it
\* takes one that is free or finds that there was none, whatever the cursor
\* does (ipallocator.go:262-328), which is what Handler makes of it.
Pool ==
  INSTANCE IPPool WITH
    pool <- Allocatable(sub), taken <- allocated, busy <- pc # "idle",
    full <- Allocatable(sub) \subseteq snap

ImplementsPool == Pool!Spec

\* Until the first call that returns false it is that pool wherever the range
\* ends, and that call is right: the subnet was full when it locked the mutex.
PoolUntilExhausted == [][~exhausted => [Pool!Next]_(Pool!vars)]_vars

\* Every call of Allocate returns, however many frees race with it.
AllocateReturns == (pc # "idle") ~> (pc = "idle")

=============================================================================
