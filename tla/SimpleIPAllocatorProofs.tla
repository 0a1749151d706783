----------------------- MODULE SimpleIPAllocatorProofs -----------------------
(***************************************************************************)
(* What Allocate guarantees for every subnet, of any size, whose           *)
(* configuration is orderly (Reserved ascending, no end before the last    *)
(* address, the last address not reserved), and for every interleaving     *)
(* with Free.                                                              *)
(***************************************************************************)
EXTENDS SimpleIPAllocator, TLAPS

AllOrderly == \A s \in Subnets : Orderly(s)

\* Inside the scan p is a real address, next is above it or nil, and next is
\* nil only once p is on the last address; the cursor follows next.
Positions ==
  /\ pc \in {"scan", "try"} => /\ p # Nil
                               /\ next # Nil => p < next
                               /\ next = Nil => p = sub.last
  /\ pc = "scan" => curr = IF next = Nil THEN sub.last ELSE next

\* The reserved addresses the loop has been over are behind p and next.
Skipped ==
  pc \in {"scan", "try"} =>
    \A j \in DOMAIN sub.reserved : j < i => sub.reserved[j] \notin {p, next}

\* Everything a call has walked past is reserved or was taken all along.
InCall == pc \in {"pos", "scan", "try"} => allocated \subseteq snap

\* Once the call has wrapped, the allocatable addresses behind the cursor, and
\* the last address of the subnet, were taken all along.
Covered ==
  /\ pc = "pos" /\ out =>
       /\ sub.last \in snap
       /\ \A a \in Allocatable(sub) : a < curr => a \in snap
  /\ pc = "scan" /\ out =>
       /\ sub.last \in snap
       /\ \A a \in Allocatable(sub) : a < p => a \in snap
  /\ pc = "scan" =>
       \A a \in Allocatable(sub) : a > p => next # Nil /\ a >= next
  /\ pc = "try" /\ out =>
       /\ sub.last \in snap \cup {p}
       /\ \A a \in Allocatable(sub) : a < curr => a \in snap \cup {p}

\* A finished scan stopped on an address it may hand out.
TryIsAllocatable == pc = "try" => p \in Allocatable(sub)

IInv ==
  TypeOK /\ NoPanic /\ Positions /\ Skipped /\ InCall /\ Covered
         /\ TryIsAllocatable /\ FalseMeansFull

-----------------------------------------------------------------------------

\* What a proof needs to know of an orderly configuration.
LEMMA OrderlyFacts ==
  ASSUME AllOrderly, NEW s \in Subnets
  PROVE  /\ StartOf(s) \in Nat /\ s.first \in Nat /\ s.last \in Nat
         /\ s.first <= StartOf(s) /\ StartOf(s) <= s.last
         /\ EndOf(s) = Nil
         /\ LastOf(s) = s.last
         /\ Len(s.reserved) \in Nat
         /\ DOMAIN s.reserved = 1 .. Len(s.reserved)
         /\ \A k \in DOMAIN s.reserved :
              s.reserved[k] \in Nat /\ s.reserved[k] # s.last
         /\ \A j, k \in DOMAIN s.reserved :
              j < k => s.reserved[j] < s.reserved[k]
  <1>1. s \in Subnet /\ Validate(s) /\ Orderly(s)
    BY SubnetsAssumption DEF AllOrderly
  <1>2. /\ s.first \in Nat /\ s.last \in Nat /\ s.start \in Int /\ s.end \in Int
        /\ s.reserved \in Seq(Int)
    BY <1>1 DEF Subnet
  <1>3. Len(s.reserved) \in Nat /\ DOMAIN s.reserved = 1 .. Len(s.reserved)
    BY <1>2
  <1>4. StartOf(s) \in Nat /\ s.first <= StartOf(s) /\ StartOf(s) <= s.last
    BY <1>1, <1>2 DEF Validate, StartOf, Nil
  <1>5. EndOf(s) = Nil /\ LastOf(s) = s.last
    BY <1>1, <1>2 DEF Orderly, WholeTail, EndOf, LastOf, Nil
  <1>6. \A k \in DOMAIN s.reserved : s.reserved[k] \in Nat
    BY <1>1, <1>2, <1>3 DEF Validate
  <1>7. \A k \in DOMAIN s.reserved : s.reserved[k] # s.last
    BY <1>1 DEF Orderly, ReservedIn
  <1>8. \A j, k \in DOMAIN s.reserved : j < k => s.reserved[j] < s.reserved[k]
    BY <1>1 DEF Orderly, Ascending
  <1> QED
    BY <1>2, <1>3, <1>4, <1>5, <1>6, <1>7, <1>8

\* An address is allocatable exactly when it lies in start..last and is not
\* in the list.
LEMMA AllocatableFacts ==
  ASSUME AllOrderly, NEW s \in Subnets
  PROVE  /\ \A a : a \in Allocatable(s) <=>
                     /\ a \in StartOf(s) .. s.last
                     /\ \A k \in DOMAIN s.reserved : s.reserved[k] # a
         /\ \A a \in Allocatable(s) : a \in Nat /\ a <= s.last
  <1>1. LastOf(s) = s.last /\ StartOf(s) \in Nat /\ s.last \in Nat
    BY OrderlyFacts
  <1> QED
    BY <1>1 DEF Allocatable, ReservedIn

\* The initial states: the cursor on the first address of the range, nobody
\* inside Allocate.
LEMMA InitIInv == ASSUME AllOrderly PROVE Init => IInv
  <1> SUFFICES ASSUME Init PROVE IInv
    OBVIOUS
  <1>1. sub \in Subnets
    BY DEF Init
  <1>2. /\ StartOf(sub) \in Nat /\ sub.last \in Nat /\ StartOf(sub) <= sub.last
        /\ Len(sub.reserved) \in Nat
    BY <1>1, OrderlyFacts
  <1>3. curr \in StartOf(sub) .. sub.last /\ i \in 1 .. Len(sub.reserved) + 1
    BY <1>2 DEF Init
  <1>4. TypeOK
    BY <1>1, <1>3 DEF Init, TypeOK
  <1> QED
    BY <1>4 DEF Init, IInv, NoPanic, Positions, Skipped, InCall, Covered,
                TryIsAllocatable, FalseMeansFull

\* Positions the cursor can move to stay in start..last.
LEMMA CursorFacts ==
  ASSUME AllOrderly, TypeOK
  PROVE  /\ sub \in Subnets
         /\ StartOf(sub) \in Nat /\ sub.last \in Nat /\ StartOf(sub) <= sub.last
         /\ EndOf(sub) = Nil
         /\ curr \in Nat /\ curr <= sub.last
         /\ Moved(curr) \in StartOf(sub) .. sub.last
         /\ After(curr) \in (StartOf(sub) .. sub.last) \cup {Nil}
         /\ After(curr) = Nil => curr = sub.last /\ Moved(curr) = sub.last
         /\ After(curr) # Nil => After(curr) = curr + 1 /\ Moved(curr) = curr + 1
  <1>1. sub \in Subnets /\ curr \in StartOf(sub) .. sub.last
    BY DEF TypeOK
  <1>2. /\ StartOf(sub) \in Nat /\ sub.last \in Nat /\ StartOf(sub) <= sub.last
        /\ EndOf(sub) = Nil
    BY <1>1, OrderlyFacts
  <1> QED
    BY <1>1, <1>2 DEF Moved, After, Nil

\* Reading the position and advancing the cursor: nothing lies between them.
LEMMA PosIInv == ASSUME AllOrderly, IInv, Pos PROVE IInv'
  <1>1. TypeOK /\ sub \in Subnets
    BY DEF IInv, TypeOK
  <1>2. /\ StartOf(sub) \in Nat /\ sub.last \in Nat /\ StartOf(sub) <= sub.last
        /\ curr \in Nat /\ curr <= sub.last
        /\ Moved(curr) \in StartOf(sub) .. sub.last
        /\ After(curr) \in (StartOf(sub) .. sub.last) \cup {Nil}
        /\ After(curr) = Nil => curr = sub.last /\ Moved(curr) = sub.last
        /\ After(curr) # Nil => After(curr) = curr + 1 /\ Moved(curr) = curr + 1
    BY <1>1, CursorFacts
  <1>3. Len(sub.reserved) \in Nat /\ DOMAIN sub.reserved = 1 .. Len(sub.reserved)
    BY <1>1, OrderlyFacts
  <1>4. \A a \in Allocatable(sub) : a \in Nat /\ a <= sub.last
    BY <1>1, AllocatableFacts
  <1>5. TypeOK'
    BY <1>1, <1>2, <1>3 DEF TypeOK, Pos
  <1>6. Positions'
    BY <1>2 DEF Pos, Positions, Nil
  <1>7. Skipped'
    BY <1>3 DEF Pos, Skipped
  <1>8. InCall'
    BY DEF IInv, InCall, Pos
  <1>9. Covered'
    BY <1>2, <1>4 DEF IInv, Covered, Pos, Nil
  <1> QED
    BY <1>5, <1>6, <1>7, <1>8, <1>9
    DEF Pos, IInv, NoPanic, TryIsAllocatable, FalseMeansFull

\* One turn of the loop over Reserved only steps over reserved addresses.
LEMMA ScanIInv == ASSUME AllOrderly, IInv, Scan PROVE IInv'
  <1> DEFINE r == sub.reserved[i]
  <1> DEFINE n == IF p = r THEN After(curr) ELSE next
  <1> DEFINE c == IF p = r THEN Moved(curr) ELSE curr
  <1>1. TypeOK /\ sub \in Subnets
    BY DEF IInv, TypeOK
  <1>2. /\ StartOf(sub) \in Nat /\ sub.last \in Nat /\ StartOf(sub) <= sub.last
        /\ curr \in Nat /\ curr <= sub.last
        /\ Moved(curr) \in StartOf(sub) .. sub.last
        /\ After(curr) \in (StartOf(sub) .. sub.last) \cup {Nil}
        /\ After(curr) = Nil => curr = sub.last /\ Moved(curr) = sub.last
        /\ After(curr) # Nil => After(curr) = curr + 1 /\ Moved(curr) = curr + 1
    BY <1>1, CursorFacts
  <1>3. /\ Len(sub.reserved) \in Nat /\ DOMAIN sub.reserved = 1 .. Len(sub.reserved)
        /\ \A k \in DOMAIN sub.reserved :
             sub.reserved[k] \in Nat /\ sub.reserved[k] # sub.last
        /\ \A j, k \in DOMAIN sub.reserved :
             j < k => sub.reserved[j] < sub.reserved[k]
    BY <1>1, OrderlyFacts
  <1>4. /\ i \in DOMAIN sub.reserved /\ i \in Nat
        /\ r \in Nat /\ r # sub.last
    BY <1>1, <1>3 DEF TypeOK, Scan
  <1>5. /\ \A a \in Allocatable(sub) : a \in Nat /\ a <= sub.last /\ a # r
    BY <1>1, <1>4, AllocatableFacts
  <1>6. /\ p \in Nat /\ p \in StartOf(sub) .. sub.last
        /\ next # Nil => next \in Nat /\ next \in StartOf(sub) .. sub.last
        /\ next # Nil => p < next /\ curr = next
        /\ next = Nil => p = sub.last /\ curr = sub.last
    BY <1>1, <1>2 DEF IInv, TypeOK, Positions, Scan, Nil
  <1>7. /\ p' = IF p = r THEN next ELSE p
        /\ next' = IF n = r THEN After(c) ELSE n
        /\ curr' = IF n = r THEN Moved(c) ELSE c
        /\ i' = i + 1
        /\ UNCHANGED <<sub, allocated, pc, out, ret, snap, exhausted>>
        /\ pc = "scan"
    BY DEF Scan
  \* The three ways through the body of the loop.
  <1>8. \/ p = r /\ next # Nil /\ p' = next /\ next' = After(curr)
             /\ curr' = Moved(curr)
        \/ next = r /\ p # r /\ p' = p /\ next' = After(curr)
             /\ curr' = Moved(curr)
        \/ next # r /\ p # r /\ p' = p /\ next' = next /\ curr' = curr
    <2>1. CASE p = r
      <3>1. next # Nil /\ curr = next /\ r < next
        BY <2>1, <1>4, <1>6
      <3>2. After(curr) # r
        BY <2>1, <3>1, <1>2, <1>4, <1>6 DEF Nil
      <3> QED
        BY <2>1, <3>1, <3>2, <1>7
    <2>2. CASE p # r
      BY <2>2, <1>7
    <2> QED
      BY <2>1, <2>2
  <1>9. TypeOK'
    <2>1. /\ curr' \in StartOf(sub) .. sub.last
          /\ p' \in (StartOf(sub) .. sub.last) \cup {Nil}
          /\ next' \in (StartOf(sub) .. sub.last) \cup {Nil}
      BY <1>1, <1>2, <1>6, <1>8 DEF TypeOK
    <2>2. i' \in 1 .. Len(sub.reserved) + 1
      BY <1>3, <1>4, <1>7
    <2> QED
      BY <1>1, <1>7, <2>1, <2>2 DEF TypeOK
  <1>10. Positions'
    BY <1>2, <1>4, <1>6, <1>7, <1>8 DEF Positions, Nil
  <1>11. Skipped'
    <2> SUFFICES ASSUME NEW j \in DOMAIN sub.reserved, j < i + 1
                 PROVE  sub.reserved[j] \notin {p', next'}
      BY <1>7 DEF Skipped
    <2>1. /\ sub.reserved[j] \in Nat /\ sub.reserved[j] <= r
          /\ j < i => sub.reserved[j] \notin {p, next} /\ sub.reserved[j] < r
          /\ j = i \/ j < i
      BY <1>3, <1>4, <1>7 DEF IInv, Skipped
    <2> QED
      BY <2>1, <1>2, <1>4, <1>6, <1>8 DEF Nil
  <1>12. InCall'
    BY <1>7 DEF IInv, InCall
  <1>13. Covered'
    <2>1. \A a \in Allocatable(sub) : a > p' => next' # Nil /\ a >= next'
      BY <1>2, <1>4, <1>5, <1>6, <1>7, <1>8 DEF IInv, Covered, Nil
    <2>2. ASSUME out, NEW a \in Allocatable(sub), a < p' PROVE a \in snap
      BY <2>2, <1>2, <1>4, <1>5, <1>6, <1>7, <1>8 DEF IInv, Covered, Nil
    <2> QED
      BY <2>1, <2>2, <1>7 DEF IInv, Covered
  <1> QED
    BY <1>9, <1>10, <1>11, <1>12, <1>13, <1>7
    DEF IInv, NoPanic, TryIsAllocatable, FalseMeansFull

\* The end of the loop over Reserved: p is allocatable; on the last address
\* the cursor goes back to the start, and a call that finds itself there a
\* second time has seen the whole range.
LEMMA ScannedFacts ==
  ASSUME AllOrderly, IInv, Scanned
  PROVE  /\ p \in Allocatable(sub)
         /\ AtEnd <=> next = Nil
         /\ ~AtEnd => /\ curr = next
                      /\ \A a \in Allocatable(sub) : a < curr => a < p \/ a = p
         /\ AtEnd => /\ p = sub.last
                     /\ \A a \in Allocatable(sub) : a < p \/ a = p
  <1>1. TypeOK /\ sub \in Subnets
    BY DEF IInv, TypeOK
  <1>2. /\ StartOf(sub) \in Nat /\ sub.last \in Nat /\ EndOf(sub) = Nil
        /\ Len(sub.reserved) \in Nat /\ DOMAIN sub.reserved = 1 .. Len(sub.reserved)
    BY <1>1, OrderlyFacts
  <1>3. /\ p # Nil /\ p \in StartOf(sub) .. sub.last /\ p \in Nat
        /\ next # Nil => next \in Nat /\ p < next /\ curr = next
        /\ next = Nil => p = sub.last
    BY <1>1, <1>2 DEF IInv, TypeOK, Positions, Scanned
  <1>4. \A j \in DOMAIN sub.reserved : sub.reserved[j] # p
    BY <1>1, <1>2 DEF IInv, TypeOK, Skipped, Scanned
  <1>5. p \in Allocatable(sub)
    BY <1>1, <1>3, <1>4, AllocatableFacts
  <1>6. \A a \in Allocatable(sub) :
          a \in Nat /\ a <= sub.last /\ (a > p => next # Nil /\ a >= next)
    BY <1>1, AllocatableFacts DEF IInv, Covered, Scanned
  <1>7. AtEnd <=> next = Nil
    BY <1>2 DEF AtEnd
  <1>8. next = Nil => \A a \in Allocatable(sub) : a < p \/ a = p
    BY <1>3, <1>6
  <1>9. next # Nil =>
          \A a \in Allocatable(sub) : a < curr => a < p \/ a = p
    BY <1>3, <1>6
  <1> QED
    BY <1>3, <1>5, <1>7, <1>8, <1>9

\* Going on to try p, with or without the wrap.
LEMMA TryNextIInv == ASSUME AllOrderly, IInv, TryNext PROVE IInv'
  <1>1. p \in Allocatable(sub) /\ next # Nil /\ curr = next
        /\ \A a \in Allocatable(sub) : a < curr => a < p \/ a = p
    BY ScannedFacts DEF TryNext
  <1>2. TypeOK'
    BY DEF IInv, TypeOK, TryNext
  <1>3. Covered'
    BY <1>1 DEF IInv, Covered, TryNext, Scanned, Allocatable, StartOf, LastOf
  <1> QED
    BY <1>1, <1>2, <1>3
    DEF IInv, TryNext, Scanned, NoPanic, Positions, Skipped, InCall,
        TryIsAllocatable, FalseMeansFull

LEMMA WrapIInv == ASSUME AllOrderly, IInv, Wrap PROVE IInv'
  <1>1. p \in Allocatable(sub) /\ p = sub.last
    BY ScannedFacts DEF Wrap
  <1>2. /\ StartOf(sub) \in Nat /\ sub.last \in Nat /\ StartOf(sub) <= sub.last
    BY CursorFacts DEF IInv
  <1>3. \A a \in Allocatable(sub) : a >= StartOf(sub)
    BY <1>2, AllocatableFacts DEF IInv, TypeOK
  <1>4. TypeOK'
    BY <1>2 DEF IInv, TypeOK, Wrap
  <1>5. Covered'
    BY <1>1, <1>2, <1>3, AllocatableFacts
    DEF IInv, TypeOK, Covered, Wrap, Scanned, Allocatable, StartOf, LastOf
  <1> QED
    BY <1>1, <1>4, <1>5
    DEF IInv, Wrap, Scanned, NoPanic, Positions, Skipped, InCall,
        TryIsAllocatable, FalseMeansFull

\* The call gives up only when everything it could hand out was taken.
LEMMA ReturnFalseIInv == ASSUME AllOrderly, IInv, ReturnFalse PROVE IInv'
  <1>1. p = sub.last /\ \A a \in Allocatable(sub) : a < p \/ a = p
    BY ScannedFacts DEF ReturnFalse
  <1>2. Allocatable(sub) \subseteq snap
    BY <1>1 DEF IInv, Covered, ReturnFalse, Scanned
  <1>3. TypeOK'
    BY DEF IInv, TypeOK, ReturnFalse
  <1> QED
    BY <1>2, <1>3
    DEF IInv, ReturnFalse, NoPanic, Positions, Skipped, InCall, Covered,
        TryIsAllocatable, FalseMeansFull

\* The three answers of the store.
LEMMA TryIInv ==
  ASSUME AllOrderly, IInv, TryAllocate \/ TryTaken \/ TryError
  PROVE  IInv'
  <1>1. p \in Allocatable(sub) /\ sub \in Subnets
    BY DEF IInv, TypeOK, TryIsAllocatable, TryAllocate, TryTaken, TryError
  <1>2. p \in sub.first .. sub.last
    BY <1>1, AllocatableFacts, OrderlyFacts
  <1>3. CASE TryAllocate
    <2>1. TypeOK'
      BY <1>2, <1>3 DEF IInv, TypeOK, TryAllocate
    <2> QED
      BY <1>3, <2>1
      DEF IInv, TryAllocate, NoPanic, Positions, Skipped, InCall, Covered,
          TryIsAllocatable, FalseMeansFull
  <1>4. CASE TryTaken
    <2>1. p \in snap
      BY <1>4 DEF IInv, InCall, TryTaken
    <2>2. TypeOK'
      BY <1>4 DEF IInv, TypeOK, TryTaken
    <2>3. Covered'
      BY <1>4, <2>1
      DEF IInv, Covered, TryTaken, Allocatable, StartOf, LastOf
    <2> QED
      BY <1>4, <2>2, <2>3
      DEF IInv, TryTaken, NoPanic, Positions, Skipped, InCall,
          TryIsAllocatable, FalseMeansFull
  <1>5. CASE TryError
    <2>1. TypeOK'
      BY <1>5 DEF IInv, TypeOK, TryError
    <2> QED
      BY <1>5, <2>1
      DEF IInv, TryError, NoPanic, Positions, Skipped, InCall, Covered,
          TryIsAllocatable, FalseMeansFull
  <1> QED
    BY <1>3, <1>4, <1>5

\* A Free by another goroutine takes nothing away from what a call has seen.
LEMMA FreeIInv ==
  ASSUME AllOrderly, IInv, NEW a \in allocated, Free(a)
  PROVE  IInv'
  <1>1. TypeOK'
    BY DEF IInv, TypeOK, Free
  <1>2. InCall'
    BY DEF IInv, InCall, Free
  <1>3. Covered' /\ TryIsAllocatable'
    BY DEF IInv, Covered, TryIsAllocatable, Free, Allocatable, StartOf, LastOf
  <1> QED
    BY <1>1, <1>2, <1>3
    DEF IInv, Free, NoPanic, Positions, Skipped, FalseMeansFull

LEMMA NextIInv == ASSUME AllOrderly, IInv, [Next]_vars PROVE IInv'
  <1>1. CASE Lock
    <2>1. TypeOK'
      BY <1>1 DEF IInv, TypeOK, Lock
    <2> QED
      BY <1>1, <2>1
      DEF IInv, Lock, NoPanic, Positions, Skipped, InCall, Covered,
          TryIsAllocatable, FalseMeansFull
  <1>2. CASE Panic
    BY <1>2 DEF IInv, Panic, Positions
  <1>3. CASE UNCHANGED vars
    BY <1>3
    DEF vars, IInv, TypeOK, NoPanic, Positions, Skipped, InCall, Covered,
        TryIsAllocatable, FalseMeansFull, Allocatable, StartOf, LastOf
  <1> QED
    BY <1>1, <1>2, <1>3, PosIInv, ScanIInv, TryNextIInv, WrapIInv,
       ReturnFalseIInv, TryIInv, FreeIInv
    DEF Next, AllocateStep

-----------------------------------------------------------------------------

\* For every orderly configuration: Allocate never dereferences nil, and a
\* call that returns false found every allocatable address taken.
THEOREM AllocateSound ==
  ASSUME AllOrderly
  PROVE  Spec => [](TypeOK /\ NoPanic /\ FalseMeansFull)
  <1>1. Init => IInv
    BY InitIInv
  <1>2. IInv /\ [Next]_vars => IInv'
    BY NextIInv
  <1>3. IInv => TypeOK /\ NoPanic /\ FalseMeansFull
    BY DEF IInv
  <1> QED
    BY <1>1, <1>2, <1>3, PTL DEF Spec

\* Only TryAllocate adds an address, and it is one the configuration allows.
LEMMA StepAllocates ==
  ASSUME AllOrderly, IInv, [Next]_vars, NEW a \in allocated' \ allocated
  PROVE  a \in Allocatable(sub)
  <1>1. TryAllocate
    BY DEF Next, AllocateStep, vars, Lock, Pos, Scan, TryNext, Wrap,
           ReturnFalse, TryTaken, TryError, Panic, Free
  <1> QED
    BY <1>1 DEF IInv, TryIsAllocatable, TryAllocate

\* No reserved address is handed out, for every orderly configuration.
THEOREM AllocateSkipsReserved ==
  ASSUME AllOrderly
  PROVE  Spec => ReservedNeverUsed
  <1>1. Init => IInv
    BY InitIInv
  <1>2. IInv /\ [Next]_vars => IInv'
    BY NextIInv
  <1>3. IInv /\ [Next]_vars =>
          [\A a \in allocated' \ allocated : a \notin ReservedIn(sub)]_vars
    BY StepAllocates DEF Allocatable
  <1> QED
    BY <1>1, <1>2, <1>3, PTL DEF Spec, ReservedNeverUsed

-----------------------------------------------------------------------------

\* A step of the allocator is a step of the pool, or nothing to its callers.
LEMMA StepOfPool ==
  ASSUME AllOrderly, IInv, IInv', [Next]_vars
  PROVE  [Pool!Next]_(Pool!vars)
  <1> DEFINE pool == Allocatable(sub)
  <1> DEFINE full == pool \subseteq snap
  <1> USE DEF Pool!vars
  <1>1. CASE Lock
    <2>1. pool' = pool /\ full' = (pool \subseteq allocated)
      BY <1>1 DEF Lock
    <2>2. pc = "idle" /\ pc' = "pos" /\ ret' = "none" /\ allocated' = allocated
      BY <1>1 DEF Lock
    <2> QED
      BY <2>1, <2>2 DEF Pool!Next, Pool!Begin
  <1>2. CASE Pos \/ Scan \/ TryNext \/ Wrap \/ TryTaken
    <2>1. /\ UNCHANGED <<sub, allocated, ret, snap>>
          /\ pc # "idle" /\ pc' # "idle"
      BY <1>2 DEF Pos, Scan, TryNext, Wrap, Scanned, TryTaken
    <2>2. pool' = pool /\ full' = full
      BY <2>1
    <2> QED
      BY <2>1, <2>2
  <1>3. CASE ReturnFalse
    <2>1. /\ UNCHANGED <<sub, allocated, snap>>
          /\ pc # "idle" /\ pc' = "idle" /\ ret' = "exhausted"
      BY <1>3 DEF ReturnFalse, Scanned
    <2>2. pool' = pool /\ full' = full
      BY <2>1
    <2>3. full
      BY <2>1, <2>2 DEF IInv, FalseMeansFull
    <2> QED
      BY <2>1, <2>2, <2>3 DEF Pool!Next, Pool!Refuse, Pool!End
  <1>4. CASE TryAllocate
    <2>1. /\ UNCHANGED <<sub, snap>>
          /\ pc # "idle" /\ pc' = "idle" /\ ret' = "ok"
          /\ p \in pool \ allocated /\ allocated' = allocated \cup {p}
      BY <1>4 DEF IInv, TryIsAllocatable, TryAllocate
    <2>2. pool' = pool /\ full' = full
      BY <2>1
    <2> QED
      BY <2>1, <2>2 DEF Pool!Next, Pool!Take, Pool!End
  <1>5. CASE TryError
    <2>1. /\ UNCHANGED <<sub, allocated, snap>>
          /\ pc # "idle" /\ pc' = "idle" /\ ret' = "error"
      BY <1>5 DEF TryError
    <2>2. pool' = pool /\ full' = full
      BY <2>1
    <2> QED
      BY <2>1, <2>2 DEF Pool!Next, Pool!Fail, Pool!End
  <1>6. CASE Panic
    BY <1>6 DEF Panic, IInv, NoPanic
  <1>7. ASSUME NEW a \in allocated, Free(a)
        PROVE  Pool!Next
    <2>1. UNCHANGED <<sub, snap, pc, ret>> /\ allocated' = allocated \ {a}
      BY <1>7 DEF Free
    <2>2. pool' = pool /\ full' = full
      BY <2>1
    <2> QED
      BY <2>1, <2>2 DEF Pool!Next, Pool!Free
  <1>8. CASE UNCHANGED vars
    <2>1. UNCHANGED <<sub, allocated, snap, pc, ret>>
      BY <1>8 DEF vars
    <2>2. pool' = pool /\ full' = full
      BY <2>1
    <2> QED
      BY <2>1, <2>2
  <1> QED
    BY <1>1, <1>2, <1>3, <1>4, <1>5, <1>6, <1>7, <1>8 DEF Next, AllocateStep

\* For every orderly configuration the allocator, cursor and all, implements a
\* pool of its allocatable addresses: the step Allocate of module Handler.
THEOREM AllocatorIsPool ==
  ASSUME AllOrderly
  PROVE  Spec => ImplementsPool
  <1>1. Init => IInv
    BY InitIInv
  <1>2. IInv /\ [Next]_vars => IInv'
    BY NextIInv
  <1>3. Init => Pool!Init
    BY DEF Init, Pool!Init
  <1>4. IInv /\ IInv' /\ [Next]_vars => [Pool!Next]_(Pool!vars)
    BY StepOfPool
  <1> QED
    BY <1>1, <1>2, <1>3, <1>4, PTL DEF Spec, ImplementsPool, Pool!Spec

=============================================================================
