--------------------------- MODULE AscendingProofs ---------------------------
(***************************************************************************)
(* What Allocate guarantees also where configurations are not orderly.     *)
(* For every valid one, whatever the order of Reserved, each call comes to *)
(* an end.  For any start and end, with the last address reserved or not,  *)
(* as long as Reserved ascends, no reserved address is handed out; and if  *)
(* Reserved lies in the range and leaves something to lease, all is well   *)
(* up to and including the first call that returns false.  Last, the gauge *)
(* of a subnet's size shows how many addresses there are to lease.         *)
(***************************************************************************)
EXTENDS SubnetSize, TLAPS, WellFoundedInduction, FiniteSetTheorems

AllAscending == \A s \in Subnets : Ascending(s)

\* The list stays inside start..end and leaves something to lease.
AllRoomy ==
  \A s \in Subnets :
    Allocatable(s) # {} /\ ReservedIn(s) \subseteq StartOf(s) .. LastOf(s)

\* Inside a call next is above p, or nil where the subnet ends; p is nil only
\* if next was when p had to move.  The cursor follows next.
Positions ==
  /\ pc \in {"scan", "try"} => next = Nil \/ (p # Nil /\ p < next)
  /\ pc = "scan" => curr = IF next = Nil THEN sub.last ELSE next

\* The reserved addresses the loop has been over are behind p and next.
Skipped ==
  /\ pc \in {"scan", "try"} =>
       \A j \in DOMAIN sub.reserved : j < i => sub.reserved[j] \notin {p, next}
  /\ pc = "try" => i > Len(sub.reserved)

AInv == TypeOK /\ Positions /\ Skipped

\* All there is to lease lies beyond x.
Before(x) == \A a \in Allocatable(sub) : a > x

\* Outside the loop the cursor is in the range; it is on a reserved address
\* only before the first allocatable one.
CursorInRange ==
  pc \in {"idle", "pos", "try"} =>
    curr <= LastOf(sub) /\ (curr \in ReservedIn(sub) => Before(curr))

\* So p is in the range, next no further than one past its end, and nothing
\* allocatable lies between them.
WalkInRange ==
  /\ pc \in {"scan", "try"} =>
       /\ p # Nil /\ p <= LastOf(sub)
       /\ EndOf(sub) # Nil => next # Nil /\ next <= EndOf(sub)
  /\ pc = "scan" =>
       /\ \A a \in Allocatable(sub) : a > p => next # Nil /\ a >= next
       /\ p \in ReservedIn(sub) => Before(p)

RInv == AInv /\ (~exhausted => CursorInRange /\ WalkInRange)

-----------------------------------------------------------------------------

\* What a proof needs to know of a valid configuration.
LEMMA ValidFacts ==
  ASSUME NEW s \in Subnets
  PROVE  /\ StartOf(s) \in Nat /\ s.first \in Nat /\ s.last \in Nat
         /\ s.first <= StartOf(s) /\ StartOf(s) <= s.last
         /\ Len(s.reserved) \in Nat
         /\ DOMAIN s.reserved = 1 .. Len(s.reserved)
  <1>1. s \in Subnet /\ Validate(s)
    BY SubnetsAssumption
  <1>2. /\ s.first \in Nat /\ s.last \in Nat /\ s.start \in Int
        /\ s.reserved \in Seq(Int)
    BY <1>1 DEF Subnet
  <1>3. Len(s.reserved) \in Nat /\ DOMAIN s.reserved = 1 .. Len(s.reserved)
    BY <1>2
  <1>4. StartOf(s) \in Nat /\ s.first <= StartOf(s) /\ StartOf(s) <= s.last
    BY <1>1, <1>2 DEF Validate, StartOf, Nil
  <1> QED
    BY <1>2, <1>3, <1>4

\* In every configuration the cursor follows next.
CursorFollows == pc = "scan" => curr = IF next = Nil THEN sub.last ELSE next

VInv == TypeOK /\ CursorFollows

LEMMA MovesFacts ==
  ASSUME TypeOK
  PROVE  /\ sub \in Subnets
         /\ StartOf(sub) \in Nat /\ sub.last \in Nat /\ StartOf(sub) <= sub.last
         /\ curr \in Nat /\ StartOf(sub) <= curr /\ curr <= sub.last
         /\ Moved(curr) \in StartOf(sub) .. sub.last
         /\ After(curr) \in (StartOf(sub) .. sub.last) \cup {Nil}
         /\ After(curr) = Nil => curr = sub.last /\ Moved(curr) = sub.last
         /\ After(curr) # Nil =>
              /\ After(curr) = curr + 1 /\ Moved(curr) = curr + 1
              /\ curr + 1 <= sub.last
  <1>1. sub \in Subnets /\ curr \in StartOf(sub) .. sub.last
    BY DEF TypeOK
  <1>2. StartOf(sub) \in Nat /\ sub.last \in Nat /\ StartOf(sub) <= sub.last
    BY <1>1, ValidFacts
  <1> QED
    BY <1>1, <1>2 DEF Moved, After, Nil

\* One turn of the loop over Reserved takes the cursor forward, if anywhere,
\* and a next that is nil stays nil.
LEMMA ScanMoves ==
  ASSUME VInv, Scan
  PROVE  /\ curr' \in curr .. sub.last
         /\ p' \in (StartOf(sub) .. sub.last) \cup {Nil}
         /\ next' \in (StartOf(sub) .. sub.last) \cup {Nil}
         /\ curr' = IF next' = Nil THEN sub.last ELSE next'
         /\ next = Nil => next' = Nil
  <1> DEFINE r == sub.reserved[i]
  <1> DEFINE n == IF p = r THEN After(curr) ELSE next
  <1> DEFINE c == IF p = r THEN Moved(curr) ELSE curr
  <1>1. TypeOK
    BY DEF VInv
  <1>2. /\ StartOf(sub) \in Nat /\ sub.last \in Nat /\ StartOf(sub) <= sub.last
        /\ curr \in Nat /\ StartOf(sub) <= curr /\ curr <= sub.last
    BY <1>1, MovesFacts
  <1>3. /\ curr = IF next = Nil THEN sub.last ELSE next
        /\ p \in (StartOf(sub) .. sub.last) \cup {Nil}
        /\ next \in (StartOf(sub) .. sub.last) \cup {Nil}
    BY <1>1 DEF VInv, CursorFollows, TypeOK, Scan
  <1>4. /\ p' = IF p = r THEN next ELSE p
        /\ next' = IF n = r THEN After(c) ELSE n
        /\ curr' = IF n = r THEN Moved(c) ELSE c
    BY DEF Scan
  <1>5. ASSUME NEW x \in curr .. sub.last
        PROVE  /\ Moved(x) \in x .. sub.last
               /\ After(x) \in (StartOf(sub) .. sub.last) \cup {Nil}
               /\ Moved(x) = IF After(x) = Nil THEN sub.last ELSE After(x)
               /\ x = sub.last => After(x) = Nil /\ Moved(x) = sub.last
    BY <1>2, <1>5 DEF Moved, After, Nil
  <1>6. /\ c \in curr .. sub.last
        /\ n \in (StartOf(sub) .. sub.last) \cup {Nil}
        /\ c = IF n = Nil THEN sub.last ELSE n
        /\ next = Nil => n = Nil /\ c = sub.last
    BY <1>2, <1>3, <1>5
  <1>7. /\ curr' \in curr .. sub.last
        /\ next' \in (StartOf(sub) .. sub.last) \cup {Nil}
        /\ curr' = IF next' = Nil THEN sub.last ELSE next'
        /\ next = Nil => next' = Nil
    BY <1>2, <1>4, <1>5, <1>6
  <1> QED
    BY <1>3, <1>4, <1>7

LEMMA InitVInv == Init => VInv
  <1> SUFFICES ASSUME Init PROVE VInv
    OBVIOUS
  <1>1. sub \in Subnets
    BY DEF Init
  <1>2. /\ StartOf(sub) \in Nat /\ sub.last \in Nat /\ StartOf(sub) <= sub.last
        /\ Len(sub.reserved) \in Nat
    BY <1>1, ValidFacts
  <1>3. curr \in StartOf(sub) .. sub.last /\ i \in 1 .. Len(sub.reserved) + 1
    BY <1>2 DEF Init
  <1> QED
    BY <1>1, <1>3 DEF Init, TypeOK, VInv, CursorFollows

LEMMA NextVInv == VInv /\ [Next]_vars => VInv'
  <1> SUFFICES ASSUME VInv, [Next]_vars PROVE VInv'
    OBVIOUS
  <1>1. TypeOK /\ sub \in Subnets
    BY DEF VInv, TypeOK
  <1>2. /\ StartOf(sub) \in Nat /\ sub.last \in Nat /\ sub.first \in Nat
        /\ sub.first <= StartOf(sub) /\ StartOf(sub) <= sub.last
        /\ Len(sub.reserved) \in Nat
    BY <1>1, ValidFacts
  <1>3. CASE Lock
    BY <1>1, <1>3 DEF Lock, VInv, TypeOK, CursorFollows
  <1>4. CASE Pos
    <2>1. /\ Moved(curr) \in StartOf(sub) .. sub.last
          /\ After(curr) \in (StartOf(sub) .. sub.last) \cup {Nil}
          /\ Moved(curr) = IF After(curr) = Nil THEN sub.last ELSE After(curr)
      BY <1>1, MovesFacts
    <2> QED
      BY <1>1, <1>2, <1>4, <2>1 DEF Pos, VInv, TypeOK, CursorFollows
  <1>5. CASE Scan
    <2>1. curr' \in StartOf(sub) .. sub.last
      BY <1>1, <1>2, <1>5, MovesFacts, ScanMoves
    <2>2. i' \in 1 .. Len(sub.reserved) + 1
      BY <1>1, <1>2, <1>5 DEF Scan, TypeOK
    <2>3. UNCHANGED <<sub, allocated, pc, out, ret, snap, exhausted>>
      BY <1>5 DEF Scan
    <2> QED
      BY <1>1, <1>5, <2>1, <2>2, <2>3, ScanMoves DEF VInv, TypeOK, CursorFollows
  <1>6. CASE TryNext
    BY <1>1, <1>6 DEF TryNext, Scanned, VInv, TypeOK, CursorFollows
  <1>7. CASE Wrap
    BY <1>1, <1>2, <1>7 DEF Wrap, Scanned, VInv, TypeOK, CursorFollows
  <1>8. CASE ReturnFalse
    BY <1>1, <1>8 DEF ReturnFalse, VInv, TypeOK, CursorFollows
  <1>9. CASE TryAllocate
    <2>1. p \in sub.first .. sub.last
      BY <1>1, <1>2, <1>9 DEF TypeOK, TryAllocate
    <2> QED
      BY <2>1, <1>1, <1>9 DEF TryAllocate, VInv, TypeOK, CursorFollows
  <1>10. CASE TryTaken \/ TryError \/ Panic
    BY <1>1, <1>10 DEF TryTaken, TryError, Panic, VInv, TypeOK, CursorFollows
  <1>11. ASSUME NEW a \in allocated, Free(a) PROVE VInv'
    BY <1>1, <1>11 DEF Free, VInv, TypeOK, CursorFollows
  <1>12. CASE UNCHANGED vars
    BY <1>1, <1>12 DEF vars, VInv, TypeOK, CursorFollows
  <1> QED
    BY <1>3, <1>4, <1>5, <1>6, <1>7, <1>8, <1>9, <1>10, <1>11, <1>12
    DEF Next, AllocateStep

\* Work has three parts, natural numbers.
WorkParts ==
  /\ Work[1] = (IF out THEN 0 ELSE 1) /\ Work[2] = Ahead /\ Work[3] = StepsHere
  /\ Ahead \in Nat /\ StepsHere \in Nat

LEMMA WorkFacts == VInv => WorkParts
  <1> SUFFICES ASSUME VInv PROVE WorkParts
    OBVIOUS
  <1>1. TypeOK /\ sub \in Subnets
    BY DEF VInv, TypeOK
  <1>2. Ahead \in Nat
    BY <1>1, MovesFacts DEF Ahead
  <1>3. i \in Nat /\ i <= Len(sub.reserved) + 1 /\ Len(sub.reserved) \in Nat
    BY <1>1, ValidFacts DEF TypeOK
  <1>4. StepsHere \in Nat
    BY <1>3 DEF StepsHere
  <1> QED
    BY <1>2, <1>4 DEF Work, WorkParts

LEMMA WorkFactsNext == VInv' => WorkParts'
  BY WorkFacts, PTL

\* How a step gets Work down: at its first, its second or its third part.
LEMMA LessFacts ==
  ASSUME NEW v, NEW w
  PROVE  /\ v[1] < w[1] => Less(v, w)
         /\ v[1] = w[1] /\ v[2] < w[2] => Less(v, w)
         /\ v[1] = w[1] /\ v[2] = w[2] /\ v[3] < w[3] => Less(v, w)
  <1>1. ASSUME v[1] < w[1] PROVE Less(v, w)
    <2>1. \A l \in 1 .. 1 - 1 : v[l] = w[l]
      OBVIOUS
    <2> QED
      BY <1>1, <2>1 DEF Less
  <1>2. ASSUME v[1] = w[1], v[2] < w[2] PROVE Less(v, w)
    <2>1. \A l \in 1 .. 2 - 1 : v[l] = w[l]
      BY <1>2
    <2> QED
      BY <1>2, <2>1 DEF Less
  <1>3. ASSUME v[1] = w[1], v[2] = w[2], v[3] < w[3] PROVE Less(v, w)
    <2>1. \A l \in 1 .. 3 - 1 : v[l] = w[l]
      BY <1>3
    <2> QED
      BY <1>3, <2>1 DEF Less
  <1> QED
    BY <1>1, <1>2, <1>3

\* Each step of the goroutine that holds the mutex counts.
LEMMA StepCounts ==
  ASSUME VInv, VInv', AllocateStep, pc' \notin {"idle", "panic"}
  PROVE  Less(Work', Work)
  <1>1. TypeOK /\ sub \in Subnets
    BY DEF VInv, TypeOK
  <1>2. /\ StartOf(sub) \in Nat /\ sub.last \in Nat /\ StartOf(sub) <= sub.last
        /\ curr \in Nat /\ curr <= sub.last
        /\ After(curr) = Nil => curr = sub.last
        /\ After(curr) # Nil => Moved(curr) = curr + 1
    BY <1>1, MovesFacts
  <1>3. /\ Work[1] = (IF out THEN 0 ELSE 1)
        /\ Work[2] = Ahead /\ Work[3] = StepsHere
        /\ Ahead \in Nat /\ StepsHere \in Nat
        /\ i \in Nat /\ i <= Len(sub.reserved) + 1
    BY <1>1, WorkFacts, ValidFacts DEF WorkParts, TypeOK
  <1>4. /\ (Work')[1] = (IF out' THEN 0 ELSE 1)
        /\ (Work')[2] = Ahead' /\ (Work')[3] = StepsHere'
        /\ Ahead' \in Nat /\ StepsHere' \in Nat
    BY WorkFactsNext DEF WorkParts
  <1>5. CASE Pos
    <2>1. Ahead = sub.last - curr + 1 /\ out' = out
      BY <1>5 DEF Pos, Ahead
    <2>2. Ahead' < Ahead
      BY <1>2, <1>5, <2>1 DEF Pos, Ahead
    <2> QED
      BY <1>3, <1>4, <2>1, <2>2, LessFacts
  <1>6. CASE Scan
    <2>1. /\ curr' \in curr .. sub.last /\ next = Nil => next' = Nil
      BY <1>6, ScanMoves
    <2>2. sub' = sub /\ out' = out /\ pc = "scan" /\ pc' = "scan" /\ i' = i + 1
      BY <1>6 DEF Scan
    <2>3. Ahead' <= Ahead
      <3>1. curr' \in curr .. sub.last /\ (next = Nil => next' = Nil)
        BY <1>6, ScanMoves
      <3> QED
        BY <1>2, <2>2, <3>1 DEF Ahead
    <2>4. StepsHere' < StepsHere
      <3>1. Len(sub.reserved) \in Nat /\ i \in Nat
        BY <1>1, <1>3, <2>2, ValidFacts
      <3> QED
        BY <2>2, <3>1 DEF StepsHere
    <2>5. Ahead' < Ahead \/ Ahead' = Ahead
      BY <1>3, <1>4, <2>3
    <2> QED
      BY <1>3, <1>4, <2>2, <2>4, <2>5, LessFacts
  <1>7. CASE TryNext
    <2>1. Ahead' = Ahead /\ out' = out
      BY <1>7 DEF TryNext, Scanned, AtEnd, Ahead
    <2>2. StepsHere' < StepsHere
      <3>1. Len(sub.reserved) \in Nat /\ i \in Nat /\ i <= Len(sub.reserved) + 1
        BY <1>1, <1>3, <1>7, ValidFacts DEF TryNext, Scanned
      <3> QED
        BY <1>7, <3>1 DEF TryNext, Scanned, StepsHere
    <2> QED
      BY <1>3, <1>4, <2>1, <2>2, LessFacts
  <1>8. CASE Wrap
    <2>1. (Work')[1] < Work[1]
      BY <1>3, <1>4, <1>8 DEF Wrap
    <2> QED
      BY <2>1, LessFacts
  <1>9. CASE TryTaken
    <2>1. Ahead' = Ahead /\ StepsHere' < StepsHere /\ out' = out
      BY <1>9 DEF TryTaken, Ahead, StepsHere
    <2> QED
      BY <1>3, <1>4, <2>1, LessFacts
  <1>10. CASE ReturnFalse \/ TryAllocate \/ TryError \/ Panic
    BY <1>10 DEF ReturnFalse, TryAllocate, TryError, Panic
  <1> QED
    BY <1>5, <1>6, <1>7, <1>8, <1>9, <1>10 DEF AllocateStep

\* The order on Work is well-founded: no sequence of steps of one call is
\* infinite.
LEMMA LessIsWellFounded ==
  IsWellFoundedOn({vw \in [1 .. 3 -> Nat] \X [1 .. 3 -> Nat] : Less(vw[1], vw[2])},
                  [1 .. 3 -> Nat])
  <1> DEFINE W == [1 .. 3 -> Nat]
  <1> DEFINE R == OpToRel(<, Nat)
  <1> DEFINE L == LexProductOrdering(R, Nat, 3)
  <1> DEFINE Under == {vw \in W \X W : Less(vw[1], vw[2])}
  <1>1. IsWellFoundedOn(L, W)
    BY NatLessThanWellFounded, WFLexProductOrdering
  <1>0. \A x, y \in Nat : x < y => <<x, y>> \in R
    BY DEF OpToRel
  <1> HIDE DEF R
  <1>2. Under \cap (W \X W) \subseteq L
    <2> SUFFICES ASSUME NEW v \in W, NEW w \in W, Less(v, w)
                 PROVE  <<v, w>> \in L
      OBVIOUS
    <2>1. PICK j \in 1 .. 3 : v[j] < w[j] /\ \A l \in 1 .. j - 1 : v[l] = w[l]
      BY DEF Less
    <2>2. v[j] \in Nat /\ w[j] \in Nat
      OBVIOUS
    <2>3. <<v[j], w[j]>> \in R
      BY <1>0, <2>1, <2>2
    <2> QED
      BY <2>1, <2>3 DEF LexProductOrdering
  <1> HIDE DEF L, Under, W
  <1>3. IsWellFoundedOn(Under, W)
    BY <1>1, <1>2, IsWellFoundedOnSubrelation
  <1> QED
    BY <1>3 DEF Under, W

\* Every call of Allocate comes to an end, for every valid configuration,
\* whatever is freed while it runs: each of its steps takes Work down in a
\* well-founded order (the loop of ipallocator.go:277).
THEOREM CallsComeToAnEnd ==
  /\ Spec => EveryStepCounts
  /\ Spec => [](Work \in [1 .. 3 -> Nat])
  /\ IsWellFoundedOn({vw \in [1 .. 3 -> Nat] \X [1 .. 3 -> Nat] : Less(vw[1], vw[2])},
                     [1 .. 3 -> Nat])
  <1>1. Init => VInv
    BY InitVInv
  <1>2. VInv /\ [Next]_vars => VInv'
    BY NextVInv
  <1>3. VInv /\ VInv' /\ [Next]_vars =>
          [pc # "idle" => pc' \in {"idle", "panic"}
                          \/ Less(Work', Work)]_<<curr, pc, p, next, i, out>>
    <2> SUFFICES ASSUME VInv, VInv', [Next]_vars, pc # "idle",
                        pc' \notin {"idle", "panic"},
                        ~UNCHANGED <<curr, pc, p, next, i, out>>
                 PROVE  Less(Work', Work)
      OBVIOUS
    <2>1. AllocateStep
      BY DEF Next, vars, Lock, Free
    <2> QED
      BY <2>1, StepCounts
  <1>4. VInv => Work \in [1 .. 3 -> Nat]
    <2> SUFFICES ASSUME VInv PROVE Work \in [1 .. 3 -> Nat]
      OBVIOUS
    <2>1. (IF out THEN 0 ELSE 1) \in Nat /\ Ahead \in Nat /\ StepsHere \in Nat
      BY WorkFacts DEF WorkParts
    <2> QED
      BY <2>1 DEF Work
  <1>5. Spec => []VInv
    BY <1>1, <1>2, PTL DEF Spec
  <1>6. Spec => EveryStepCounts
    BY <1>3, <1>5, PTL DEF Spec, EveryStepCounts
  <1>7. Spec => [](Work \in [1 .. 3 -> Nat])
    BY <1>4, <1>5, PTL
  <1> QED
    BY <1>6, <1>7, LessIsWellFounded

-----------------------------------------------------------------------------

\* What a proof needs to know of an ascending configuration.
LEMMA AscendingFacts ==
  ASSUME AllAscending, NEW s \in Subnets
  PROVE  /\ StartOf(s) \in Nat /\ s.first \in Nat /\ s.last \in Nat
         /\ s.first <= StartOf(s) /\ StartOf(s) <= s.last
         /\ LastOf(s) \in Nat /\ LastOf(s) <= s.last
         /\ IF EndOf(s) = Nil
            THEN LastOf(s) = s.last
            ELSE EndOf(s) = LastOf(s) + 1 /\ LastOf(s) < s.last
         /\ Len(s.reserved) \in Nat
         /\ DOMAIN s.reserved = 1 .. Len(s.reserved)
         /\ \A k \in DOMAIN s.reserved : s.reserved[k] \in Nat
         /\ \A j, k \in DOMAIN s.reserved :
              j < k => s.reserved[j] < s.reserved[k]
         /\ \A a \in ReservedIn(s) : a \in Nat
         /\ \A a \in Allocatable(s) :
              /\ a \in Nat /\ StartOf(s) <= a /\ a <= LastOf(s)
              /\ a \notin ReservedIn(s)
  <1>1. s \in Subnet /\ Validate(s) /\ Ascending(s)
    BY SubnetsAssumption DEF AllAscending
  <1>2. /\ s.first \in Nat /\ s.last \in Nat /\ s.start \in Int /\ s.end \in Int
        /\ s.reserved \in Seq(Int)
    BY <1>1 DEF Subnet
  <1>3. Len(s.reserved) \in Nat /\ DOMAIN s.reserved = 1 .. Len(s.reserved)
    BY <1>2
  <1>4. StartOf(s) \in Nat /\ s.first <= StartOf(s) /\ StartOf(s) <= s.last
    BY <1>1, <1>2 DEF Validate, StartOf, Nil
  <1>5. LastOf(s) \in Nat /\ LastOf(s) <= s.last
    BY <1>1, <1>2 DEF Validate, LastOf, Nil
  <1>6. IF EndOf(s) = Nil
        THEN LastOf(s) = s.last
        ELSE EndOf(s) = LastOf(s) + 1 /\ LastOf(s) < s.last
    BY <1>1, <1>2 DEF Validate, EndOf, LastOf, Nil
  <1>7. \A k \in DOMAIN s.reserved : s.reserved[k] \in Nat
    BY <1>1, <1>2, <1>3 DEF Validate
  <1>8. \A j, k \in DOMAIN s.reserved : j < k => s.reserved[j] < s.reserved[k]
    BY <1>1 DEF Ascending
  <1>9. \A a \in ReservedIn(s) : a \in Nat
    BY <1>7 DEF ReservedIn
  <1>10. \A a \in Allocatable(s) :
           /\ a \in Nat /\ StartOf(s) <= a /\ a <= LastOf(s)
           /\ a \notin ReservedIn(s)
    BY <1>4, <1>5 DEF Allocatable
  <1> QED
    BY <1>2, <1>3, <1>4, <1>5, <1>6, <1>7, <1>8, <1>9, <1>10

\* Positions the cursor can move to stay in start..last.
LEMMA CursorFacts ==
  ASSUME AllAscending, TypeOK
  PROVE  /\ sub \in Subnets
         /\ StartOf(sub) \in Nat /\ sub.last \in Nat /\ StartOf(sub) <= sub.last
         /\ curr \in Nat /\ curr <= sub.last
         /\ Moved(curr) \in StartOf(sub) .. sub.last
         /\ After(curr) \in (StartOf(sub) .. sub.last) \cup {Nil}
         /\ After(curr) = Nil => curr = sub.last /\ Moved(curr) = sub.last
         /\ After(curr) # Nil => After(curr) = curr + 1 /\ Moved(curr) = curr + 1
  <1>1. sub \in Subnets /\ curr \in StartOf(sub) .. sub.last
    BY DEF TypeOK
  <1>2. StartOf(sub) \in Nat /\ sub.last \in Nat /\ StartOf(sub) <= sub.last
    BY <1>1, AscendingFacts
  <1> QED
    BY <1>1, <1>2 DEF Moved, After, Nil

-----------------------------------------------------------------------------

\* The initial states: the cursor on the start of the range.
LEMMA InitAInv == ASSUME AllAscending PROVE Init => AInv
  <1> SUFFICES ASSUME Init PROVE AInv
    OBVIOUS
  <1>1. sub \in Subnets
    BY DEF Init
  <1>2. /\ StartOf(sub) \in Nat /\ sub.last \in Nat /\ StartOf(sub) <= sub.last
        /\ Len(sub.reserved) \in Nat
    BY <1>1, AscendingFacts
  <1>3. curr \in StartOf(sub) .. sub.last /\ i \in 1 .. Len(sub.reserved) + 1
    BY <1>2 DEF Init
  <1>4. TypeOK
    BY <1>1, <1>3 DEF Init, TypeOK
  <1> QED
    BY <1>4 DEF Init, AInv, Positions, Skipped

\* Reading the position and advancing the cursor.
LEMMA PosAInv == ASSUME AllAscending, AInv, Pos PROVE AInv'
  <1>1. TypeOK /\ sub \in Subnets
    BY DEF AInv, TypeOK
  <1>2. /\ StartOf(sub) \in Nat /\ sub.last \in Nat /\ StartOf(sub) <= sub.last
        /\ curr \in Nat /\ curr <= sub.last
        /\ Moved(curr) \in StartOf(sub) .. sub.last
        /\ After(curr) \in (StartOf(sub) .. sub.last) \cup {Nil}
        /\ After(curr) = Nil => curr = sub.last /\ Moved(curr) = sub.last
        /\ After(curr) # Nil => After(curr) = curr + 1 /\ Moved(curr) = curr + 1
    BY <1>1, CursorFacts
  <1>3. Len(sub.reserved) \in Nat /\ DOMAIN sub.reserved = 1 .. Len(sub.reserved)
    BY <1>1, AscendingFacts
  <1>4. TypeOK'
    BY <1>1, <1>2, <1>3 DEF TypeOK, Pos
  <1>5. Positions'
    BY <1>2 DEF Pos, Positions, Nil
  <1>6. Skipped'
    BY <1>3 DEF Pos, Skipped
  <1> QED
    BY <1>4, <1>5, <1>6 DEF AInv

\* One turn of the loop over Reserved: both positions end up off the address,
\* and, Reserved ascending, neither comes back to an earlier one.
LEMMA ScanFacts ==
  ASSUME AllAscending, AInv, Scan
  PROVE  \/ p = sub.reserved[i] /\ next = Nil /\ p' = Nil /\ next' = Nil
              /\ curr' = sub.last
         \/ p = sub.reserved[i] /\ next # Nil /\ p' = next
              /\ next' = After(curr) /\ curr' = Moved(curr)
         \/ next = sub.reserved[i] /\ p # sub.reserved[i] /\ p' = p
              /\ next' = After(curr) /\ curr' = Moved(curr)
         \/ next # sub.reserved[i] /\ p # sub.reserved[i] /\ p' = p
              /\ next' = next /\ curr' = curr
  <1> DEFINE r == sub.reserved[i]
  <1> DEFINE n == IF p = r THEN After(curr) ELSE next
  <1> DEFINE c == IF p = r THEN Moved(curr) ELSE curr
  <1>1. TypeOK /\ sub \in Subnets
    BY DEF AInv, TypeOK
  <1>2. /\ sub.last \in Nat /\ curr \in Nat
        /\ After(sub.last) = Nil /\ Moved(sub.last) = sub.last
        /\ After(curr) # Nil => After(curr) = curr + 1
    BY <1>1, CursorFacts DEF After, Moved
  <1>3. i \in DOMAIN sub.reserved /\ r \in Nat
    BY <1>1, AscendingFacts DEF TypeOK, Scan
  <1>4. /\ p' = IF p = r THEN next ELSE p
        /\ next' = IF n = r THEN After(c) ELSE n
        /\ curr' = IF n = r THEN Moved(c) ELSE c
    BY DEF Scan
  <1>5. /\ next # Nil => next \in Nat /\ p \in Nat /\ p < next /\ curr = next
        /\ next = Nil => curr = sub.last
    BY <1>1, AscendingFacts DEF AInv, TypeOK, Positions, Scan, Nil
  <1>6. CASE p = r /\ next = Nil
    <2>1. n = Nil /\ c = sub.last /\ n # r
      BY <1>6, <1>2, <1>3, <1>5 DEF Nil
    <2> QED
      BY <2>1, <1>4, <1>6
  <1>7. CASE p = r /\ next # Nil
    <2>1. After(curr) # r
      BY <1>7, <1>2, <1>3, <1>5 DEF Nil
    <2> QED
      BY <2>1, <1>4, <1>7
  <1>8. CASE p # r
    BY <1>8, <1>4
  <1> QED
    BY <1>6, <1>7, <1>8

\* The loop keeps the positions ordered and off what it has been over.
LEMMA ScanAInv == ASSUME AllAscending, AInv, Scan PROVE AInv'
  <1> DEFINE r == sub.reserved[i]
  <1>1. TypeOK /\ sub \in Subnets
    BY DEF AInv, TypeOK
  <1>2. /\ StartOf(sub) \in Nat /\ sub.last \in Nat /\ StartOf(sub) <= sub.last
        /\ curr \in Nat /\ curr <= sub.last
        /\ Moved(curr) \in StartOf(sub) .. sub.last
        /\ After(curr) \in (StartOf(sub) .. sub.last) \cup {Nil}
        /\ After(curr) = Nil => curr = sub.last /\ Moved(curr) = sub.last
        /\ After(curr) # Nil => After(curr) = curr + 1 /\ Moved(curr) = curr + 1
    BY <1>1, CursorFacts
  <1>3. /\ Len(sub.reserved) \in Nat /\ DOMAIN sub.reserved = 1 .. Len(sub.reserved)
        /\ \A k \in DOMAIN sub.reserved : sub.reserved[k] \in Nat
        /\ \A j, k \in DOMAIN sub.reserved :
             j < k => sub.reserved[j] < sub.reserved[k]
    BY <1>1, AscendingFacts
  <1>4. /\ i \in DOMAIN sub.reserved /\ i \in Nat /\ r \in Nat
    BY <1>1, <1>3 DEF TypeOK, Scan
  <1>5. /\ p \in Nat /\ p \in StartOf(sub) .. sub.last
        /\ next # Nil => /\ next \in Nat /\ next \in StartOf(sub) .. sub.last
                         /\ p < next /\ curr = next
        /\ next = Nil => curr = sub.last
    BY <1>1, <1>2 DEF AInv, TypeOK, Positions, Scan, Nil
  <1>6. i' = i + 1 /\ pc = "scan"
        /\ UNCHANGED <<sub, allocated, pc, out, ret, snap, exhausted>>
    BY DEF Scan
  <1>7. \/ p = r /\ next = Nil /\ p' = Nil /\ next' = Nil /\ curr' = sub.last
        \/ p = r /\ next # Nil /\ p' = next
             /\ next' = After(curr) /\ curr' = Moved(curr)
        \/ next = r /\ p # r /\ p' = p
             /\ next' = After(curr) /\ curr' = Moved(curr)
        \/ next # r /\ p # r /\ p' = p /\ next' = next /\ curr' = curr
    BY ScanFacts
  <1>8. TypeOK'
    <2>1. /\ curr' \in StartOf(sub) .. sub.last
          /\ p' \in (StartOf(sub) .. sub.last) \cup {Nil}
          /\ next' \in (StartOf(sub) .. sub.last) \cup {Nil}
      BY <1>1, <1>2, <1>5, <1>7 DEF TypeOK
    <2>2. i' \in 1 .. Len(sub.reserved) + 1
      BY <1>3, <1>4, <1>6
    <2> QED
      BY <1>1, <1>6, <2>1, <2>2 DEF TypeOK
  <1>9. Positions'
    BY <1>2, <1>4, <1>5, <1>6, <1>7 DEF Positions, Nil
  <1>10. Skipped'
    <2> SUFFICES ASSUME NEW j \in DOMAIN sub.reserved, j < i + 1
                 PROVE  sub.reserved[j] \notin {p', next'}
      BY <1>6 DEF Skipped
    <2>1. /\ sub.reserved[j] \in Nat /\ sub.reserved[j] <= r
          /\ j < i => sub.reserved[j] \notin {p, next} /\ sub.reserved[j] < r
          /\ j = i \/ j < i
      BY <1>3, <1>4, <1>6 DEF AInv, Skipped
    <2> QED
      BY <2>1, <1>2, <1>4, <1>5, <1>7 DEF Nil
  <1> QED
    BY <1>8, <1>9, <1>10 DEF AInv

\* Every step keeps the positions ordered and off the reserved addresses.
LEMMA NextAInv == ASSUME AllAscending PROVE AInv /\ [Next]_vars => AInv'
  <1> SUFFICES ASSUME AInv, [Next]_vars PROVE AInv'
    OBVIOUS
  <1>1. TypeOK /\ sub \in Subnets
    BY DEF AInv, TypeOK
  <1>2. /\ StartOf(sub) \in Nat /\ sub.last \in Nat /\ sub.first \in Nat
        /\ sub.first <= StartOf(sub) /\ StartOf(sub) <= sub.last
    BY <1>1, AscendingFacts
  <1>3. CASE Lock
    BY <1>1, <1>3 DEF Lock, AInv, TypeOK, Positions, Skipped
  <1>4. CASE Pos
    BY <1>4, PosAInv
  <1>5. CASE Scan
    BY <1>5, ScanAInv
  <1>6. CASE TryNext
    <2>1. TypeOK'
      BY <1>1, <1>6 DEF TryNext, TypeOK
    <2>2. Positions' /\ Skipped'
      BY <1>6 DEF TryNext, Scanned, AInv, TypeOK, Positions, Skipped
    <2> QED
      BY <2>1, <2>2 DEF AInv
  <1>7. CASE Wrap
    <2>1. TypeOK'
      BY <1>1, <1>2, <1>7 DEF Wrap, TypeOK
    <2>2. Positions' /\ Skipped'
      BY <1>7 DEF Wrap, Scanned, AInv, TypeOK, Positions, Skipped
    <2> QED
      BY <2>1, <2>2 DEF AInv
  <1>8. CASE ReturnFalse
    BY <1>1, <1>8 DEF ReturnFalse, AInv, TypeOK, Positions, Skipped
  <1>9. CASE TryAllocate
    <2>1. p \in sub.first .. sub.last
      BY <1>1, <1>2, <1>9 DEF TypeOK, TryAllocate
    <2> QED
      BY <2>1, <1>1, <1>9 DEF TryAllocate, AInv, TypeOK, Positions, Skipped
  <1>10. CASE TryTaken
    BY <1>1, <1>10 DEF TryTaken, AInv, TypeOK, Positions, Skipped
  <1>11. CASE TryError
    BY <1>1, <1>11 DEF TryError, AInv, TypeOK, Positions, Skipped
  <1>12. CASE Panic
    BY <1>1, <1>12 DEF Panic, AInv, TypeOK, Positions, Skipped
  <1>13. ASSUME NEW a \in allocated, Free(a) PROVE AInv'
    BY <1>1, <1>13 DEF Free, AInv, TypeOK, Positions, Skipped
  <1>14. CASE UNCHANGED vars
    BY <1>1, <1>14 DEF vars, AInv, TypeOK, Positions, Skipped
  <1> QED
    BY <1>3, <1>4, <1>5, <1>6, <1>7, <1>8, <1>9, <1>10, <1>11, <1>12, <1>13,
       <1>14 DEF Next, AllocateStep

\* The only step that hands an address out is TryAllocate.
LEMMA NewIsP ==
  ASSUME [Next]_vars, NEW a \in allocated' \ allocated
  PROVE  TryAllocate /\ a = p
  BY DEF vars, Next, AllocateStep, Lock, Pos, Scan, TryNext, Wrap, ReturnFalse,
         TryAllocate, TryTaken, TryError, Panic, Free

\* A step from a state where the walk has skipped them hands out no reserved
\* address.
LEMMA StepSkipsReserved ==
  ASSUME AllAscending, AInv, [Next]_vars,
         NEW a \in allocated' \ allocated
  PROVE  a \notin ReservedIn(sub)
  <1>1. TryAllocate /\ a = p
    BY NewIsP
  <1>2. /\ Len(sub.reserved) \in Nat
        /\ DOMAIN sub.reserved = 1 .. Len(sub.reserved)
    BY AscendingFacts DEF AInv, TypeOK
  <1>3. i \in Nat /\ i > Len(sub.reserved)
    BY <1>1, <1>2 DEF AInv, TypeOK, Skipped, TryAllocate
  <1>4. \A j \in DOMAIN sub.reserved : sub.reserved[j] # p
    BY <1>1, <1>2, <1>3 DEF AInv, Skipped, TryAllocate
  <1> QED
    BY <1>1, <1>4 DEF ReservedIn

\* A reserved address is never handed out, for any ascending list: not after a
\* call that returned false, nor where the walk ends in a nil dereference
\* (the loop over Reserved in Allocate, ipallocator.go:282-294).
THEOREM AscendingSkipsReserved ==
  ASSUME AllAscending PROVE Spec => ReservedNeverUsed
  <1>1. Init => AInv
    BY InitAInv
  <1>2. AInv /\ [Next]_vars => AInv'
    BY NextAInv
  <1>3. AInv /\ [Next]_vars =>
          [\A a \in allocated' \ allocated : a \notin ReservedIn(sub)]_vars
    BY StepSkipsReserved
  <1> QED
    BY <1>1, <1>2, <1>3, PTL DEF Spec, ReservedNeverUsed

-----------------------------------------------------------------------------

\* The ranges in which Reserved lies and something is left to lease.
LEMMA RoomyFacts ==
  ASSUME AllAscending, AllRoomy, NEW s \in Subnets
  PROVE  /\ StartOf(s) <= LastOf(s)
         /\ StartOf(s) \in ReservedIn(s) => \A a \in Allocatable(s) : a > StartOf(s)
         /\ \A r \in ReservedIn(s) : StartOf(s) <= r /\ r <= LastOf(s)
         /\ \E a \in Allocatable(s) : TRUE
  <1>1. Allocatable(s) # {} /\ ReservedIn(s) \subseteq StartOf(s) .. LastOf(s)
    BY DEF AllRoomy
  <1>2. /\ StartOf(s) \in Nat /\ LastOf(s) \in Nat
        /\ \A a \in Allocatable(s) :
             /\ a \in Nat /\ StartOf(s) <= a /\ a <= LastOf(s)
             /\ a \notin ReservedIn(s)
    BY AscendingFacts
  <1> QED
    BY <1>1, <1>2

\* The cursor starts on the start of the range.
LEMMA InitRInv == ASSUME AllAscending, AllRoomy PROVE Init => RInv
  <1> SUFFICES ASSUME Init PROVE RInv
    OBVIOUS
  <1>1. AInv /\ sub \in Subnets
    BY InitAInv DEF Init
  <1>2. CursorInRange
    BY <1>1, RoomyFacts DEF Init, CursorInRange, Before
  <1> QED
    BY <1>1, <1>2 DEF Init, RInv, WalkInRange

\* From a cursor in the range, p is in it and next at most one past its end.
LEMMA PosRInv ==
  ASSUME AllAscending, AllRoomy, RInv, Pos, ~exhausted
  PROVE  CursorInRange' /\ WalkInRange'
  <1>1. TypeOK /\ sub \in Subnets
    BY DEF RInv, AInv, TypeOK
  <1>2. /\ curr \in Nat /\ curr <= LastOf(sub)
        /\ curr \in ReservedIn(sub) => Before(curr)
    BY <1>1, CursorFacts DEF RInv, CursorInRange, Pos
  <1>3. /\ sub.last \in Nat /\ LastOf(sub) \in Nat
        /\ IF EndOf(sub) = Nil
           THEN LastOf(sub) = sub.last
           ELSE EndOf(sub) = LastOf(sub) + 1 /\ LastOf(sub) < sub.last
        /\ \A a \in Allocatable(sub) : a \in Nat /\ a <= LastOf(sub)
        /\ LastOf(sub) <= sub.last
    BY <1>1, AscendingFacts
  <1>4. /\ After(curr) = Nil => curr = sub.last
        /\ After(curr) # Nil => After(curr) = curr + 1
    BY <1>2, <1>3 DEF After, Nil
  <1>5. p' = curr /\ next' = After(curr) /\ sub' = sub /\ pc' = "scan"
    BY DEF Pos
  <1>6. EndOf(sub) # Nil => next' # Nil /\ next' <= EndOf(sub)
    BY <1>2, <1>3, <1>4, <1>5
  <1>7. \A a \in Allocatable(sub) : a > p' => next' # Nil /\ a >= next'
    BY <1>2, <1>3, <1>4, <1>5 DEF Nil
  <1>8. WalkInRange'
    BY <1>2, <1>5, <1>6, <1>7 DEF WalkInRange, Before, Nil
  <1> QED
    BY <1>5, <1>8 DEF CursorInRange

\* Stepping over a reserved address stays in the range: if p steps, everything
\* allocatable lies beyond it, so next is still inside; if only next steps, it
\* was on an address of the range.
LEMMA ScanRInv ==
  ASSUME AllAscending, AllRoomy, RInv, Scan, ~exhausted
  PROVE  CursorInRange' /\ WalkInRange'
  <1> DEFINE r == sub.reserved[i]
  <1>1. TypeOK /\ AInv /\ sub \in Subnets
    BY DEF RInv, AInv, TypeOK
  <1>2. /\ sub.last \in Nat /\ LastOf(sub) \in Nat
        /\ IF EndOf(sub) = Nil
           THEN LastOf(sub) = sub.last
           ELSE EndOf(sub) = LastOf(sub) + 1 /\ LastOf(sub) < sub.last
        /\ \A a \in Allocatable(sub) :
             a \in Nat /\ a <= LastOf(sub) /\ a \notin ReservedIn(sub)
        /\ LastOf(sub) <= sub.last
    BY <1>1, AscendingFacts
  <1>3. i \in DOMAIN sub.reserved
    BY <1>1, AscendingFacts DEF TypeOK, Scan
  <1>4. /\ r \in ReservedIn(sub) /\ r \in Nat /\ r <= LastOf(sub)
        /\ \E a \in Allocatable(sub) : TRUE
    <2>1. r \in ReservedIn(sub)
      BY <1>3 DEF ReservedIn
    <2> QED
      BY <2>1, <1>1, AscendingFacts, RoomyFacts
  <1>5. /\ p \in Nat
        /\ next # Nil => next \in Nat /\ p < next /\ curr = next
        /\ After(curr) = Nil => curr = sub.last
        /\ After(curr) # Nil => After(curr) = curr + 1
    BY <1>1, AscendingFacts DEF AInv, TypeOK, Positions, Scan, After, Nil
  <1>6. /\ p <= LastOf(sub)
        /\ EndOf(sub) # Nil => next # Nil /\ next <= EndOf(sub)
        /\ \A a \in Allocatable(sub) : a > p => next # Nil /\ a >= next
        /\ p \in ReservedIn(sub) => \A a \in Allocatable(sub) : a > p
    BY DEF RInv, WalkInRange, Before, Scan
  <1>7. pc' = "scan" /\ sub' = sub
    BY DEF Scan
  <1>8. \/ p = r /\ next = Nil /\ p' = Nil /\ next' = Nil /\ curr' = sub.last
        \/ p = r /\ next # Nil /\ p' = next
             /\ next' = After(curr) /\ curr' = Moved(curr)
        \/ next = r /\ p # r /\ p' = p
             /\ next' = After(curr) /\ curr' = Moved(curr)
        \/ next # r /\ p # r /\ p' = p /\ next' = next /\ curr' = curr
    BY <1>1, ScanFacts
  <1>9. SUFFICES /\ p' # Nil /\ p' <= LastOf(sub)
                 /\ EndOf(sub) # Nil => next' # Nil /\ next' <= EndOf(sub)
                 /\ \A a \in Allocatable(sub) : a > p' => next' # Nil /\ a >= next'
                 /\ p' \in ReservedIn(sub) => \A a \in Allocatable(sub) : a > p'
    BY <1>7 DEF CursorInRange, WalkInRange, Before
  <1>10. CASE p = r /\ next = Nil
    BY <1>4, <1>6, <1>10    \* all there is to lease lies beyond p: nothing
  <1>11. CASE p = r /\ next # Nil
    <2>1. \A a \in Allocatable(sub) : a > p /\ a >= next
      BY <1>4, <1>6, <1>11
    <2>2. p' = next /\ next' = After(next) /\ next \in Nat /\ curr = next
      BY <1>4, <1>5, <1>8, <1>11
    <2>3. next <= LastOf(sub)
      BY <2>1, <2>2, <1>2, <1>4
    <2>4. EndOf(sub) # Nil => next' # Nil /\ next' <= EndOf(sub)
      BY <2>2, <2>3, <1>2, <1>5
    <2>5. \A a \in Allocatable(sub) : a > p' => next' # Nil /\ a >= next'
      BY <2>1, <2>2, <1>2, <1>5 DEF Nil
    <2>6. p' \in ReservedIn(sub) => \A a \in Allocatable(sub) : a > p'
      BY <2>1, <2>2, <1>2
    <2> QED
      BY <1>11, <2>2, <2>3, <2>4, <2>5, <2>6
  <1>12. CASE p # r /\ next = r
    <2>1. p' = p /\ next' = After(next) /\ next \in Nat /\ curr = next
      BY <1>4, <1>5, <1>8, <1>12 DEF Nil
    <2>2. EndOf(sub) # Nil => next' # Nil /\ next' <= EndOf(sub)
      BY <2>1, <1>2, <1>4, <1>5, <1>12
    <2>3. \A a \in Allocatable(sub) : a > p => a > next
      BY <2>1, <1>2, <1>4, <1>6, <1>12
    <2>4. \A a \in Allocatable(sub) : a > p => next' # Nil /\ a >= next'
      BY <2>1, <2>3, <1>2, <1>5 DEF Nil
    <2> QED
      BY <2>1, <2>2, <2>4, <1>5, <1>6 DEF Nil
  <1>13. CASE p # r /\ next # r
    BY <1>5, <1>6, <1>8, <1>13 DEF Nil
  <1> QED
    BY <1>10, <1>11, <1>12, <1>13

\* Every other step leaves the walk alone, or the cursor on the start of the
\* range or on a next that is neither reserved nor past the end.
LEMMA NextRInv ==
  ASSUME AllAscending, AllRoomy PROVE RInv /\ [Next]_vars => RInv'
  <1> SUFFICES ASSUME RInv, [Next]_vars PROVE RInv'
    OBVIOUS
  <1>1. AInv /\ TypeOK /\ sub \in Subnets
    BY DEF RInv, AInv, TypeOK
  <1>2. AInv'
    BY <1>1, NextAInv
  <1> SUFFICES ASSUME ~exhausted' PROVE CursorInRange' /\ WalkInRange'
    BY <1>2 DEF RInv
  <1>3. /\ StartOf(sub) \in Nat /\ LastOf(sub) \in Nat /\ sub.last \in Nat
        /\ StartOf(sub) <= LastOf(sub)
        /\ StartOf(sub) \in ReservedIn(sub) =>
             \A a \in Allocatable(sub) : a > StartOf(sub)
    BY <1>1, AscendingFacts, RoomyFacts
  <1>4. ~exhausted
    BY DEF vars, Next, AllocateStep, Lock, Pos, Scan, TryNext, Wrap, ReturnFalse,
           TryAllocate, TryTaken, TryError, Panic, Free
  <1>5. CursorInRange /\ WalkInRange
    BY <1>4 DEF RInv
  <1>6. CASE Lock
    BY <1>5, <1>6 DEF Lock, CursorInRange, WalkInRange, Before
  <1>7. CASE Pos
    BY <1>4, <1>7, PosRInv
  <1>8. CASE Scan
    BY <1>4, <1>8, ScanRInv
  <1>9. CASE TryNext
    <2>1. /\ next # Nil /\ next # EndOf(sub) /\ curr = next /\ pc = "scan"
          /\ i > Len(sub.reserved)
      BY <1>1, <1>9 DEF TryNext, Scanned, AtEnd, AInv, Positions
    <2>2. next \in Nat /\ next <= sub.last
      BY <2>1, <1>1, <1>3, AscendingFacts DEF TypeOK, Nil
    <2>3. curr <= LastOf(sub)
      <3>1. IF EndOf(sub) = Nil
            THEN LastOf(sub) = sub.last
            ELSE EndOf(sub) = LastOf(sub) + 1
        BY <1>1, AscendingFacts
      <3> QED
        BY <3>1, <2>1, <2>2, <1>3, <1>5 DEF WalkInRange
    <2>4. curr \notin ReservedIn(sub)
      <3>1. DOMAIN sub.reserved = 1 .. Len(sub.reserved)
            /\ Len(sub.reserved) \in Nat /\ i \in Nat
        BY <1>1, AscendingFacts DEF TypeOK
      <3>2. \A j \in DOMAIN sub.reserved : sub.reserved[j] # next
        BY <3>1, <2>1, <1>1 DEF AInv, Skipped
      <3> QED
        BY <3>2, <2>1 DEF ReservedIn
    <2> QED
      BY <2>1, <2>3, <2>4, <1>5, <1>9
      DEF TryNext, CursorInRange, WalkInRange, Before
  <1>10. CASE Wrap
    BY <1>3, <1>5, <1>10 DEF Wrap, Scanned, CursorInRange, WalkInRange, Before
  <1>11. CASE ReturnFalse
    BY <1>11 DEF ReturnFalse
  <1>12. CASE TryAllocate \/ TryTaken \/ TryError \/ Panic
    BY <1>5, <1>12
    DEF TryAllocate, TryTaken, TryError, Panic, CursorInRange, WalkInRange, Before
  <1>13. ASSUME NEW a \in allocated, Free(a) PROVE CursorInRange' /\ WalkInRange'
    BY <1>5, <1>13 DEF Free, CursorInRange, WalkInRange, Before
  <1>14. CASE UNCHANGED vars
    BY <1>5, <1>14 DEF vars, CursorInRange, WalkInRange, Before
  <1> QED
    BY <1>6, <1>7, <1>8, <1>9, <1>10, <1>11, <1>12, <1>13, <1>14
    DEF Next, AllocateStep

\* What a step hands out is the p of a walk that kept to the range.
LEMMA StepKeepsRange ==
  ASSUME AllAscending, AllRoomy, RInv, [Next]_vars, ~exhausted,
         NEW a \in allocated' \ allocated
  PROVE  a \in StartOf(sub) .. LastOf(sub)
  <1>1. TryAllocate /\ a = p
    BY NewIsP
  <1>2. TypeOK /\ sub \in Subnets
    BY DEF RInv, AInv, TypeOK
  <1>3. StartOf(sub) \in Nat /\ LastOf(sub) \in Nat /\ sub.last \in Nat
    BY <1>2, AscendingFacts
  <1>4. p \in StartOf(sub) .. sub.last
    BY <1>1, <1>2 DEF TypeOK, TryAllocate
  <1>5. p <= LastOf(sub)
    BY <1>1 DEF RInv, WalkInRange, TryAllocate
  <1> QED
    BY <1>1, <1>3, <1>4, <1>5

\* Until a call returns false every address handed out lies in start..end,
\* for any start and end with Reserved ascending between them and something
\* left to lease: the stop at one past the end (ipallocator.go:296) works
\* although the scan of Reserved may move next twice.
THEOREM AscendingKeepsRange ==
  ASSUME AllAscending, AllRoomy PROVE Spec => InRangeUntilExhausted
  <1>1. Init => RInv
    BY InitRInv
  <1>2. RInv /\ [Next]_vars => RInv'
    BY NextRInv
  <1>3. RInv /\ [Next]_vars =>
          [~exhausted =>
             \A a \in allocated' \ allocated :
               a \in StartOf(sub) .. LastOf(sub)]_vars
    BY StepKeepsRange
  <1> QED
    BY <1>1, <1>2, <1>3, PTL DEF Spec, InRangeUntilExhausted

-----------------------------------------------------------------------------

\* Until the first call that returns false: everything a call has walked past
\* is reserved or was taken all along.
InCall == pc \in {"pos", "scan", "try"} => allocated \subseteq snap

\* The last allocatable address is in A.
LastOneIn(A) ==
  \A a \in Allocatable(sub) : (\A b \in Allocatable(sub) : b <= a) => a \in A

\* Once the call has wrapped, the last allocatable address, and those behind
\* the walk, were taken all along.
Covered ==
  /\ pc = "pos" /\ out =>
       LastOneIn(snap) /\ \A a \in Allocatable(sub) : a < curr => a \in snap
  /\ pc = "scan" /\ out =>
       LastOneIn(snap) /\ \A a \in Allocatable(sub) : a < p => a \in snap
  /\ pc = "try" /\ out =>
       /\ LastOneIn(snap \cup {p})
       /\ \A a \in Allocatable(sub) : a < curr => a \in snap \cup {p}

FInv ==
  RInv /\ InCall /\ (~exhausted => NoPanicUntilExhausted /\ Covered)

\* The end of the loop over Reserved: p is allocatable, and at the end of the
\* range it is the last that is.
LEMMA AtEndFacts ==
  ASSUME AllAscending, AllRoomy, RInv, ~exhausted, Scanned
  PROVE  /\ sub \in Subnets /\ p \in Nat /\ p \in Allocatable(sub)
         /\ \A a \in Allocatable(sub) : a \in Nat
         /\ AtEnd => \A a \in Allocatable(sub) : a <= p
         /\ ~AtEnd => curr = next /\ \A a \in Allocatable(sub) : a > p => a >= curr
  <1>1. TypeOK /\ AInv /\ sub \in Subnets /\ pc = "scan" /\ i > Len(sub.reserved)
    BY DEF RInv, AInv, TypeOK, Scanned
  <1>2. /\ p \in StartOf(sub) .. sub.last /\ p <= LastOf(sub)
        /\ EndOf(sub) # Nil => next # Nil /\ next <= EndOf(sub)
        /\ \A a \in Allocatable(sub) : a > p => next # Nil /\ a >= next
    BY <1>1 DEF RInv, WalkInRange, TypeOK
  <1>3. /\ StartOf(sub) \in Nat /\ LastOf(sub) \in Nat /\ sub.last \in Nat
        /\ EndOf(sub) # Nil => EndOf(sub) = LastOf(sub) + 1
        /\ \A a \in Allocatable(sub) : a \in Nat /\ a <= LastOf(sub)
        /\ DOMAIN sub.reserved = 1 .. Len(sub.reserved)
        /\ Len(sub.reserved) \in Nat /\ i \in Nat
    BY <1>1, AscendingFacts DEF TypeOK
  <1>4. p \notin ReservedIn(sub)
    BY <1>1, <1>3 DEF AInv, Skipped, ReservedIn
  <1>5. p \in Allocatable(sub) /\ p \in Nat
    BY <1>2, <1>3, <1>4 DEF Allocatable
  <1>6. AtEnd => \A a \in Allocatable(sub) : a <= p
    <2>1. CASE next = Nil
      BY <2>1, <1>2, <1>3, <1>5
    <2>2. CASE next = EndOf(sub) /\ next # Nil
      BY <2>2, <1>2, <1>3, <1>5
    <2> QED
      BY <2>1, <2>2 DEF AtEnd
  <1>7. ~AtEnd => curr = next
    BY <1>1 DEF AtEnd, AInv, Positions
  <1> QED
    BY <1>1, <1>2, <1>3, <1>5, <1>6, <1>7

\* The loop over Reserved only steps over reserved addresses.
LEMMA ScanCovered ==
  ASSUME AllAscending, AllRoomy, FInv, Scan, ~exhausted PROVE Covered'
  <1>1. TypeOK /\ AInv /\ sub \in Subnets /\ Covered
    BY DEF FInv, RInv, AInv, TypeOK
  <1>2. \A a \in Allocatable(sub) :
          a \in Nat /\ a \notin ReservedIn(sub) /\ (a > p => a >= next)
    BY <1>1, AscendingFacts DEF FInv, RInv, WalkInRange, Scan
  <1>3. sub.reserved[i] \in ReservedIn(sub)
    BY <1>1, AscendingFacts DEF TypeOK, Scan, ReservedIn
  <1>4. p \in Nat /\ (p' = p \/ (p = sub.reserved[i] /\ p' = next /\ next \in Nat))
    <2>1. p \in Nat /\ (next # Nil => next \in Nat)
      BY <1>1, AscendingFacts DEF TypeOK, Scan, Nil
    <2>2. p = sub.reserved[i] => next # Nil
      <3>1. PICK a \in Allocatable(sub) : TRUE
        BY <1>1, RoomyFacts
      <3>2. p \in ReservedIn(sub) => a > p
        BY DEF FInv, RInv, WalkInRange, Before, Scan
      <3>3. a > p => next # Nil
        BY DEF FInv, RInv, WalkInRange, Scan
      <3> QED
        BY <1>3, <3>2, <3>3
    <2> QED
      BY <1>1, <2>1, <2>2, ScanFacts
  <1>5. /\ pc = "scan" /\ pc' = "scan"
        /\ UNCHANGED <<sub, out, snap>>
    BY DEF Scan
  <1>6. \A a \in Allocatable(sub) : a < p' => a < p
    BY <1>2, <1>3, <1>4
  <1> QED
    BY <1>1, <1>5, <1>6 DEF Covered, LastOneIn

\* Every step keeps what the call knows to have been taken.
LEMMA NextFInv ==
  ASSUME AllAscending, AllRoomy PROVE FInv /\ [Next]_vars => FInv'
  <1> SUFFICES ASSUME FInv, [Next]_vars PROVE FInv'
    OBVIOUS
  <1>1. RInv /\ AInv /\ TypeOK /\ sub \in Subnets
    BY DEF FInv, RInv, AInv, TypeOK
  <1>2. RInv'
    BY <1>1, NextRInv
  <1>3. InCall'
    <2>1. InCall
      BY DEF FInv
    <2>2. CASE Lock
      BY <2>2 DEF Lock, InCall
    <2>3. CASE Pos \/ Scan \/ TryNext \/ Wrap \/ TryTaken
      <3>1. UNCHANGED <<allocated, snap>> /\ pc \in {"pos", "scan", "try"}
        BY <2>3 DEF Pos, Scan, TryNext, Scanned, Wrap, TryTaken
      <3> QED
        BY <2>1, <3>1 DEF InCall
    <2>4. CASE ReturnFalse \/ TryAllocate \/ TryError \/ Panic
      BY <2>4 DEF ReturnFalse, TryAllocate, TryError, Panic, InCall
    <2>5. ASSUME NEW a \in allocated, Free(a) PROVE InCall'
      BY <2>1, <2>5 DEF Free, InCall
    <2>6. CASE UNCHANGED vars
      BY <2>1, <2>6 DEF vars, InCall
    <2> QED
      BY <2>2, <2>3, <2>4, <2>5, <2>6 DEF Next, AllocateStep
  <1> SUFFICES ASSUME ~exhausted' PROVE NoPanicUntilExhausted' /\ Covered'
    BY <1>2, <1>3 DEF FInv
  <1>4. ~exhausted
    BY DEF vars, Next, AllocateStep, Lock, Pos, Scan, TryNext, Wrap, ReturnFalse,
           TryAllocate, TryTaken, TryError, Panic, Free
  <1>5. NoPanicUntilExhausted /\ Covered /\ InCall /\ WalkInRange
    BY <1>4 DEF FInv, RInv
  <1>6. CASE Lock
    BY <1>6 DEF Lock, NoPanicUntilExhausted, Covered
  <1>7. CASE Pos
    <2>1. UNCHANGED <<sub, out, snap>> /\ pc = "pos" /\ pc' = "scan" /\ p' = curr
      BY <1>7 DEF Pos
    <2> QED
      BY <1>5, <2>1 DEF NoPanicUntilExhausted, Covered, LastOneIn
  <1>8. CASE Scan
    <2>1. Covered'
      BY <1>4, <1>8, ScanCovered
    <2> QED
      BY <1>8, <2>1 DEF Scan, NoPanicUntilExhausted
  <1>9. CASE TryNext
    <2>1. /\ \A a \in Allocatable(sub) : a \in Nat /\ (a > p => a >= curr)
          /\ p \in Nat
      BY <1>1, <1>4, <1>9, AtEndFacts DEF TryNext
    <2>2. /\ UNCHANGED <<sub, curr, p, out, snap>>
          /\ pc = "scan" /\ pc' = "try"
      BY <1>9 DEF TryNext, Scanned
    <2>3. \A a \in Allocatable(sub) : a < curr => a < p \/ a = p
      <3>1. curr \in Nat
        BY <1>1, CursorFacts
      <3> QED
        BY <2>1, <3>1
    <2> QED
      BY <1>5, <2>2, <2>3 DEF NoPanicUntilExhausted, Covered, LastOneIn
  <1>10. CASE Wrap
    <2>1. /\ \A a \in Allocatable(sub) : a \in Nat /\ a <= p
          /\ p \in Nat /\ p \in Allocatable(sub)
      BY <1>1, <1>4, <1>10, AtEndFacts DEF Wrap
    <2>2. \A a \in Allocatable(sub) : ~(a < StartOf(sub))
      BY <1>1, AscendingFacts
    <2>3. /\ UNCHANGED <<sub, p, snap>>
          /\ pc' = "try" /\ curr' = StartOf(sub)
      BY <1>10 DEF Wrap
    <2>4. \A a \in Allocatable(sub) :
            (\A b \in Allocatable(sub) : b <= a) => a = p
      BY <2>1
    <2> QED
      BY <2>2, <2>3, <2>4 DEF NoPanicUntilExhausted, Covered, LastOneIn
  <1>11. CASE ReturnFalse
    BY <1>11 DEF ReturnFalse
  <1>12. CASE TryAllocate \/ TryError
    BY <1>12 DEF TryAllocate, TryError, NoPanicUntilExhausted, Covered
  <1>13. CASE TryTaken
    <2>1. p \in snap
      BY <1>5, <1>13 DEF TryTaken, InCall
    <2>2. UNCHANGED <<sub, curr, out, snap>> /\ pc = "try" /\ pc' = "pos"
      BY <1>13 DEF TryTaken
    <2>3. snap \cup {p} = snap
      BY <2>1
    <2> QED
      BY <1>5, <2>2, <2>3 DEF NoPanicUntilExhausted, Covered, LastOneIn
  <1>14. ~Panic
    BY <1>5 DEF Panic, WalkInRange
  <1>15. ASSUME NEW a \in allocated, Free(a)
         PROVE  NoPanicUntilExhausted' /\ Covered'
    BY <1>5, <1>15 DEF Free, NoPanicUntilExhausted, Covered, LastOneIn
  <1>16. CASE UNCHANGED vars
    BY <1>5, <1>16 DEF vars, NoPanicUntilExhausted, Covered, LastOneIn
  <1> QED
    BY <1>6, <1>7, <1>8, <1>9, <1>10, <1>11, <1>12, <1>13, <1>14, <1>15, <1>16
    DEF Next, AllocateStep

\* A call that returns false for the first time has been over the range.
LEMMA FirstFalse ==
  ASSUME AllAscending, AllRoomy, FInv, [Next]_vars, ~exhausted, exhausted'
  PROVE  Allocatable(sub) \subseteq snap
  <1>1. ReturnFalse
    BY DEF vars, Next, AllocateStep, Lock, Pos, Scan, TryNext, Wrap, ReturnFalse,
           TryAllocate, TryTaken, TryError, Panic, Free
  <1>2. /\ \A a \in Allocatable(sub) : a \in Nat /\ a <= p
        /\ p \in Nat /\ p \in Allocatable(sub)
    BY <1>1, AtEndFacts DEF FInv, ReturnFalse
  <1>3. /\ LastOneIn(snap)
        /\ \A a \in Allocatable(sub) : a < p => a \in snap
    BY <1>1 DEF FInv, Covered, ReturnFalse, Scanned
  <1>4. p \in snap
    BY <1>2, <1>3 DEF LastOneIn
  <1>5. ASSUME NEW a \in Allocatable(sub) PROVE a < p \/ a = p
    BY <1>2
  <1> QED
    BY <1>3, <1>4, <1>5

\* Before that, the address it hands out is in the pool, and no other step
\* takes any.
LEMMA PoolStep ==
  ASSUME AllAscending, AllRoomy, FInv, [Next]_vars, ~exhausted
  PROVE  [Pool!Next]_(Pool!vars)
  <1> DEFINE pool == Allocatable(sub)
  <1> DEFINE full == pool \subseteq snap
  <1> USE DEF Pool!vars
  <1>1. CASE Lock
    <2>1. pool' = pool /\ full' = (pool \subseteq allocated)
      BY <1>1 DEF Lock
    <2>2. pc = "idle" /\ pc' = "pos" /\ ret' = "none" /\ allocated' = allocated
      BY <1>1 DEF Lock
    <2> QED
      BY <2>1, <2>2 DEF Pool!Next, Pool!Begin
  <1>2. CASE Pos \/ Scan \/ TryNext \/ Wrap \/ TryTaken \/ Panic
    <2>1. /\ UNCHANGED <<sub, allocated, ret, snap>>
          /\ pc # "idle" /\ pc' # "idle"
      BY <1>2 DEF Pos, Scan, TryNext, Wrap, Scanned, TryTaken, Panic
    <2>2. pool' = pool /\ full' = full
      BY <2>1
    <2> QED
      BY <2>1, <2>2
  <1>3. CASE ReturnFalse
    <2>1. /\ UNCHANGED <<sub, allocated, snap>>
          /\ pc # "idle" /\ pc' = "idle" /\ ret' = "exhausted" /\ exhausted'
      BY <1>3 DEF ReturnFalse, Scanned
    <2>2. pool' = pool /\ full' = full
      BY <2>1
    <2>3. full
      BY <2>1, FirstFalse
    <2> QED
      BY <2>1, <2>2, <2>3 DEF Pool!Next, Pool!Refuse, Pool!End
  <1>4. CASE TryAllocate
    <2>1. /\ UNCHANGED <<sub, snap>>
          /\ pc # "idle" /\ pc' = "idle" /\ ret' = "ok"
          /\ p \in allocated' \ allocated /\ allocated' = allocated \cup {p}
      BY <1>4 DEF TryAllocate
    <2>2. pool' = pool /\ full' = full
      BY <2>1
    <2>3. p \in pool
      BY <2>1, StepSkipsReserved, StepKeepsRange DEF FInv, RInv, Allocatable
    <2> QED
      BY <2>1, <2>2, <2>3 DEF Pool!Next, Pool!Take, Pool!End
  <1>5. CASE TryError
    <2>1. /\ UNCHANGED <<sub, allocated, snap>>
          /\ pc # "idle" /\ pc' = "idle" /\ ret' = "error"
      BY <1>5 DEF TryError
    <2>2. pool' = pool /\ full' = full
      BY <2>1
    <2> QED
      BY <2>1, <2>2 DEF Pool!Next, Pool!Fail, Pool!End
  <1>6. ASSUME NEW a \in allocated, Free(a)
        PROVE  Pool!Next
    <2>1. UNCHANGED <<sub, snap, pc, ret>> /\ allocated' = allocated \ {a}
      BY <1>6 DEF Free
    <2>2. pool' = pool /\ full' = full
      BY <2>1
    <2> QED
      BY <2>1, <2>2 DEF Pool!Next, Pool!Free
  <1>7. CASE UNCHANGED vars
    <2>1. UNCHANGED <<sub, allocated, snap, pc, ret>>
      BY <1>7 DEF vars
    <2>2. pool' = pool /\ full' = full
      BY <2>1
    <2> QED
      BY <2>1, <2>2
  <1> QED
    BY <1>1, <1>2, <1>3, <1>4, <1>5, <1>6, <1>7 DEF Next, AllocateStep

\* Up to the first call that returns false the allocator is right wherever the
\* range begins and ends and with the last address reserved or not, as long as
\* Reserved ascends in the range: it does not panic, it is a pool of its
\* allocatable addresses, and that call finds the pool empty
\* (ipallocator.go:262-328).
THEOREM AscendingRightUntilExhausted ==
  ASSUME AllAscending, AllRoomy
  PROVE  /\ Spec => []NoPanicUntilExhausted
         /\ Spec => PoolUntilExhausted
  <1>1. Init => FInv
    <2> SUFFICES ASSUME Init PROVE FInv
      OBVIOUS
    <2> QED
      BY InitRInv DEF Init, FInv, InCall, NoPanicUntilExhausted, Covered
  <1>2. FInv /\ [Next]_vars => FInv'
    BY NextFInv
  <1>3. FInv => NoPanicUntilExhausted
    BY DEF FInv, NoPanicUntilExhausted
  <1>4. FInv /\ [Next]_vars => [~exhausted => [Pool!Next]_(Pool!vars)]_vars
    BY PoolStep
  <1> QED
    BY <1>1, <1>2, <1>3, <1>4, PTL DEF Spec, PoolUntilExhausted

-----------------------------------------------------------------------------

\* A list without repetitions: allocatableSize takes off every entry.
AllDistinct ==
  \A s \in Subnets : \A j, k \in DOMAIN s.reserved :
    s.reserved[j] = s.reserved[k] => j = k

\* A nonempty set of natural numbers up to n has a largest element.
LEMMA LargestExists ==
  ASSUME NEW n \in Nat, NEW T, T \subseteq 0 .. n, T # {}
  PROVE  \E x \in T : \A y \in T : y <= x
  <1> DEFINE R == OpToRel(<, Nat)
  <1> DEFINE U == {u \in 0 .. n : n - u \in T}
  <1>1. U \subseteq Nat /\ U # {}
    <2>1. PICK x \in T : TRUE
      OBVIOUS
    <2>2. x \in 0 .. n /\ n - x \in 0 .. n /\ n - (n - x) = x
      OBVIOUS
    <2>3. n - (n - x) \in T
      BY <2>2, Zenon
    <2>4. n - x \in U
      BY <2>2, <2>3, Zenon
    <2>5. U \subseteq Nat
      OBVIOUS
    <2> QED
      BY <2>4, <2>5, Zenon
  <1>2. IsWellFoundedOn(R, Nat)
    BY NatLessThanWellFounded
  <1>3. \A x, y \in Nat : x < y => <<x, y>> \in R
    BY DEF OpToRel
  <1> HIDE DEF R, U
  <1>4. PICK u \in U : \A v \in U : <<v, u>> \notin R
    BY <1>1, <1>2, WFMin
  <1>5. \A v \in U : u <= v
    <2> SUFFICES ASSUME NEW v \in U PROVE u <= v
      OBVIOUS
    <2>1. u \in Nat /\ v \in Nat /\ <<v, u>> \notin R
      BY <1>1, <1>4
    <2>2. ~(v < u)
      BY <1>3, <2>1
    <2> QED
      BY <2>1, <2>2
  <1>6. ASSUME NEW y \in T PROVE y <= n - u
    <2>1. y \in 0 .. n /\ n - y \in 0 .. n /\ n - (n - y) = y
      OBVIOUS
    <2>2. n - y \in U
      BY <2>1 DEF U
    <2>3. u <= n - y /\ u \in Nat
      BY <1>1, <1>5, <2>2
    <2> QED
      BY <2>1, <2>3
  <1>7. n - u \in T
    BY DEF U
  <1> QED
    BY <1>6, <1>7

\* What is left to lease of a set of addresses.
Unreserved(s, block) == block \ ReservedIn(s)

\* The code's count of one prefix is right: as many entries of the list lie in
\* it as it has reserved addresses.
LEMMA PrefixCounts ==
  ASSUME AllDistinct, NEW s \in Subnets, NEW a \in Nat, NEW b \in Nat
  PROVE  /\ IsFiniteSet(Unreserved(s, a .. b))
         /\ SizeOfPrefix(s, a .. b) = Cardinality(Unreserved(s, a .. b))
         /\ SizeOfPrefix(s, a .. b) \in Nat
  <1> DEFINE block == a .. b
  <1> DEFINE K == {k \in DOMAIN s.reserved : s.reserved[k] \in block}
  <1> DEFINE f == [k \in K |-> s.reserved[k]]
  <1>1. IsFiniteSet(block)
    BY FS_Interval
  <1>2. DOMAIN s.reserved = 1 .. Len(s.reserved) /\ Len(s.reserved) \in Nat
    BY ValidFacts
  <1>3. IsFiniteSet(K)
    <2>1. IsFiniteSet(DOMAIN s.reserved)
      BY <1>2, FS_Interval
    <2> QED
      BY <2>1, FS_Subset
  <1>4. f \in Bijection(K, block \cap ReservedIn(s))
    <2>1. f \in [K -> block \cap ReservedIn(s)]
      BY DEF ReservedIn
    <2>2. \A j, k \in K : f[j] = f[k] => j = k
      BY DEF AllDistinct
    <2>3. \A r \in block \cap ReservedIn(s) : \E k \in K : f[k] = r
      BY DEF ReservedIn
    <2> QED
      BY <2>1, <2>2, <2>3 DEF Bijection, Injection, Surjection, IsInjective
  <1>5. Cardinality(K) = Cardinality(block \cap ReservedIn(s))
    BY <1>3, <1>4, FS_Bijection DEF ExistsBijection
  <1>6. /\ IsFiniteSet(block \ ReservedIn(s))
        /\ Cardinality(block \ ReservedIn(s))
             = Cardinality(block) - Cardinality(block \cap ReservedIn(s))
    BY <1>1, FS_Difference
  <1>7. Cardinality(block \ ReservedIn(s)) \in Nat
    BY <1>6, FS_CardinalityType
  <1> QED
    BY <1>5, <1>6, <1>7 DEF SizeOfPrefix, Unreserved

\* The next prefix of Summarize is never empty and stays in the range.
LEMMA PrefixFits ==
  ASSUME NEW last \in Nat, NEW a \in 0 .. last
  PROVE  /\ SummarizeNext(a, last) \in 1 .. last + 1
         /\ a + SummarizeNext(a, last) - 1 <= last
  <1> DEFINE Sizes == {m \in PrefixSizes(last) : Fits(a, m, last)}
  <1>1. 1 \in Sizes
    <2>1. 1 = 2^0 /\ 0 \in 0 .. last /\ 1 \in 1 .. last + 1
      OBVIOUS
    <2>2. 1 \in PrefixSizes(last)
      <3>1. \E n \in 0 .. last : 1 = 2^n
        BY <2>1
      <3> QED
        BY <2>1, <3>1 DEF PrefixSizes
    <2>3. Fits(a, 1, last)
      BY DEF Fits
    <2> QED
      BY <2>2, <2>3
  <1>2. Sizes \subseteq 0 .. last + 1
    BY DEF PrefixSizes
  <1>3. last + 1 \in Nat
    OBVIOUS
  <1>4. \E m \in Sizes : \A k \in Sizes : k <= m
    <2> HIDE DEF Sizes
    <2> QED
      BY <1>1, <1>2, <1>3, LargestExists
  <1>5. /\ SummarizeNext(a, last) \in PrefixSizes(last)
        /\ Fits(a, SummarizeNext(a, last), last)
    BY <1>4 DEF SummarizeNext
  <1> QED
    BY <1>5 DEF PrefixSizes, Fits

\* From any address on, the prefixes cover the rest of the range, each address
\* once.
LEMMA RestSplits ==
  ASSUME AllDistinct, NEW s \in Subnets, NEW last \in Nat, NEW a \in 0 .. last
  PROVE  LET m == SummarizeNext(a, last)
         IN  /\ a + m \in Nat /\ a < a + m
             /\ Cardinality(Unreserved(s, a .. last))
                  = SizeOfPrefix(s, Prefix(a, m))
                      + Cardinality(Unreserved(s, (a + m) .. last))
  <1> DEFINE m == SummarizeNext(a, last)
             here == Unreserved(s, a .. a + m - 1)
             rest == Unreserved(s, (a + m) .. last)
  <1>1. m \in 1 .. last + 1 /\ a + m - 1 <= last
    BY PrefixFits
  <1> HIDE DEF m
  <1>2. a + m \in Nat /\ a < a + m /\ a + m - 1 \in Nat /\ a \in Nat
    BY <1>1
  <1>3. here \cap rest = {} /\ here \cup rest = Unreserved(s, a .. last)
    BY <1>1, <1>2 DEF Unreserved
  <1>4. /\ IsFiniteSet(here) /\ IsFiniteSet(rest)
        /\ SizeOfPrefix(s, Prefix(a, m)) = Cardinality(here)
    BY <1>2, PrefixCounts DEF Prefix
  <1>5. Cardinality(here) \in Nat /\ Cardinality(rest) \in Nat
    BY <1>4, FS_CardinalityType
  <1>6. Cardinality(here \cup rest)
          = Cardinality(here) + Cardinality(rest) - Cardinality(here \cap rest)
    BY <1>4, FS_Union
  <1>7. Cardinality(here \cap rest) = 0
    BY <1>3, FS_EmptySet
  <1>8. Cardinality(Unreserved(s, a .. last)) = Cardinality(here) + Cardinality(rest)
    <2> HIDE DEF here, rest
    <2>1. Cardinality(here \cup rest) = Cardinality(here) + Cardinality(rest)
      BY <1>5, <1>6, <1>7
    <2> QED
      BY <1>3, <2>1, Zenon
  <1> QED
    BY <1>2, <1>4, <1>8 DEF m

\* One turn of the recursion of SizeOfRange.
Turn(g, s, last) ==
  [a \in Nat |->
     IF a > last THEN 0
     ELSE SizeOfPrefix(s, Prefix(a, SummarizeNext(a, last)))
            + g[a + SummarizeNext(a, last)]]

\* How much there is to lease from a on solves the equation ...
LEMMA CountsSolve ==
  ASSUME AllDistinct, NEW s \in Subnets, NEW last \in Nat
  PROVE  LET Count == [a \in Nat |-> Cardinality(Unreserved(s, a .. last))]
         IN  Count = Turn(Count, s, last)
  <1> DEFINE Count == [a \in Nat |-> Cardinality(Unreserved(s, a .. last))]
  <1>1. ASSUME NEW a \in Nat PROVE Count[a] = Turn(Count, s, last)[a]
    <2>1. CASE a > last
      <3>1. Unreserved(s, a .. last) = {}
        BY <2>1 DEF Unreserved
      <3> QED
        BY <2>1, <3>1, FS_EmptySet DEF Turn
    <2>2. CASE a <= last
      <3> DEFINE m == SummarizeNext(a, last)
      <3>1. /\ a + m \in Nat
            /\ Count[a] = SizeOfPrefix(s, Prefix(a, m))
                            + Cardinality(Unreserved(s, (a + m) .. last))
        BY <2>2, RestSplits
      <3>2. Turn(Count, s, last)[a] = SizeOfPrefix(s, Prefix(a, m)) + Count[a + m]
        BY <2>2 DEF Turn
      <3> QED
        BY <3>1, <3>2
    <2> QED
      BY <2>1, <2>2
  <1>2. Turn(Count, s, last) = [a \in Nat |-> Turn(Count, s, last)[a]]
    BY DEF Turn
  <1> QED
    BY <1>1, <1>2

\* ... and it is the only solution: two that differ do so last at some address
\* of the range, and agree on what follows it.
LEMMA OneSolution ==
  ASSUME AllDistinct, NEW s \in Subnets, NEW last \in Nat,
         NEW g, g = Turn(g, s, last), NEW h, h = Turn(h, s, last)
  PROVE  g = h
  <1> DEFINE D == {a \in Nat : g[a] # h[a]}
  <1>1. \A a \in Nat : a > last => g[a] = 0 /\ h[a] = 0
    BY DEF Turn
  <1>2. D \subseteq 0 .. last
    BY <1>1
  <1>3. D = {}
    <2> SUFFICES ASSUME D # {} PROVE FALSE
      OBVIOUS
    <2>1. PICK a \in D : \A b \in D : b <= a
      <3> HIDE DEF D
      <3> QED
        BY <1>2, LargestExists
    <2> DEFINE m == SummarizeNext(a, last)
    <2>2. a \in 0 .. last /\ a \in Nat /\ ~(a > last)
      BY <1>2
    <2>3. a + m \in Nat /\ a < a + m
      BY <2>2, RestSplits
    <2>4. g[a + m] = h[a + m]
      BY <2>1, <2>2, <2>3
    <2>5. g[a] = SizeOfPrefix(s, Prefix(a, m)) + g[a + m]
      BY <2>2 DEF Turn
    <2>6. h[a] = SizeOfPrefix(s, Prefix(a, m)) + h[a + m]
      BY <2>2 DEF Turn
    <2> QED
      BY <2>1, <2>4, <2>5, <2>6
  <1>4. g = [a \in Nat |-> g[a]] /\ h = [a \in Nat |-> h[a]]
    BY DEF Turn
  <1> QED
    BY <1>3, <1>4

\* So the code's sum over the prefixes of a range is the number of addresses in
\* it that are not reserved.
LEMMA RangeCounts ==
  ASSUME AllDistinct, NEW s \in Subnets, NEW first \in Nat, NEW last \in Nat
  PROVE  SizeOfRange(s, first, last) = Cardinality(Unreserved(s, first .. last))
  <1> DEFINE Count == [a \in Nat |-> Cardinality(Unreserved(s, a .. last))]
             Size == CHOOSE g : g = Turn(g, s, last)
  <1>1. Count = Turn(Count, s, last)
    BY CountsSolve
  <1>2. Size = Turn(Size, s, last)
    BY <1>1
  <1>3. Size = Count
    <2> HIDE DEF Count, Size
    <2> QED
      BY <1>1, <1>2, OneSolution
  <1>4. SizeOfRange(s, first, last) = Size[first]
    BY DEF SizeOfRange, Turn
  <1> QED
    BY <1>3, <1>4

\* The gauge subnet_allocatable_size shows how many addresses can be leased,
\* for every valid subnet, start and end and every list of distinct reserved
\* addresses (metrics.go:175).
THEOREM SizeIsRight == ASSUME AllDistinct PROVE Spec => []SizeIsCount
  <1>1. ASSUME sub \in Subnets PROVE SizeIsCount
    <2>1. /\ StartOf(sub) \in Nat /\ sub.first \in Nat /\ sub.last \in Nat
      BY <1>1, ValidFacts
    <2>2. LastOf(sub) \in Nat
      BY <1>1, <2>1, SubnetsAssumption DEF LastOf, Subnet, Validate, Nil
    <2>3. CASE sub.start = Nil /\ sub.end = Nil
      BY <1>1, <2>1, <2>3, PrefixCounts
      DEF SizeIsCount, AllocatableSize, Allocatable, Unreserved, StartOf, LastOf
    <2>4. CASE ~(sub.start = Nil /\ sub.end = Nil)
      <3>1. AllocatableSize(sub) = SizeOfRange(sub, StartOf(sub), LastOf(sub))
        BY <2>4 DEF AllocatableSize
      <3> QED
        BY <1>1, <2>1, <2>2, <3>1, RangeCounts
        DEF SizeIsCount, Allocatable, Unreserved
    <2> QED
      BY <2>3, <2>4
  <1>2. VInv => SizeIsCount
    BY <1>1 DEF VInv, TypeOK
  <1>3. Spec => []VInv
    BY InitVInv, NextVInv, PTL DEF Spec
  <1> QED
    BY <1>2, <1>3, PTL

=============================================================================
