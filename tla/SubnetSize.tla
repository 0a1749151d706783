----------------------------- MODULE SubnetSize -----------------------------
(***************************************************************************)
(* The pure function behind the subnet_allocatable_size gauge:             *)
(* allocatableSize (metrics.go) covers start..end by prefixes, adds up     *)
(* their sizes and takes off the reserved addresses found in each.  It is  *)
(* compared with the set of addresses the allocator means by the same      *)
(* configuration.  Subnets of 2^64 addresses and more, whose size the code *)
(* calls infinite, are left out.                                           *)
(***************************************************************************)
EXTENDS SimpleIPAllocator, FiniteSets

\* The prefix of m addresses that begins at a.
Prefix(a, m) == a .. a + m - 1

PrefixSizes(last) == {m \in 1 .. last + 1 : \E n \in 0 .. last : m = 2^n}

\* Mutant: the last address is taken for the size of the range.
FitsInSize(a, m, last) == a % m = 0 /\ m <= last + 1

\* May a prefix of m addresses begin at a and stay within last?
Fits(a, m, last) == a % m = 0 /\ a + m - 1 <= last

\* The size of the next prefix of ipaddr.Summarize: the largest that fits.
SummarizeNext(a, last) ==
  CHOOSE m \in PrefixSizes(last) :
    /\ Fits(a, m, last)
    /\ \A k \in PrefixSizes(last) : Fits(a, k, last) => k <= m

\* Mutant: every reserved address is taken off, in range or not.
SizeOfPrefixLessAll(s, block) == Cardinality(block) - Len(s.reserved)

SizeOfPrefix(s, block) ==
  Cardinality(block)
    - Cardinality({k \in DOMAIN s.reserved : s.reserved[k] \in block})

\* What the prefixes of Summarize(first, last) add up to: the size of the one
\* at first, then of those from the address after it.
SizeOfRange(s, first, last) ==
  LET size[a \in Nat] ==
        IF a > last THEN 0
        ELSE LET m == SummarizeNext(a, last)
             IN SizeOfPrefix(s, Prefix(a, m)) + size[a + m]
  IN size[first]

AllocatableSize(s) ==
  IF s.start = Nil /\ s.end = Nil
    THEN SizeOfPrefix(s, s.first .. s.last)
    ELSE SizeOfRange(s, StartOf(s), LastOf(s))

\* The size shown for a subnet is the number of addresses it can lease, for
\* every start, end and list of distinct reserved addresses (metrics.go:94:
\* "The number of allocatable IP addresses within a subnet, accounting for
\* start/end ranges and reserved addresses.").
SizeIsCount == AllocatableSize(sub) = Cardinality(Allocatable(sub))

=============================================================================
