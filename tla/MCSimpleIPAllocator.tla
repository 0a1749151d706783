------------------------ MODULE MCSimpleIPAllocator ------------------------
(***************************************************************************)
(* Every configuration of a subnet of four addresses (a /30) with up to    *)
(* three reserved addresses, sorted into the classes the runs ask about.   *)
(***************************************************************************)
EXTENDS SubnetSize

Host == 0 .. 3

Lists(n) == UNION {[1 .. m -> Host] : m \in 0 .. n}

Configs ==
  {s \in [first: {0}, last: {3}, start: Host \cup {Nil}, end: Host \cup {Nil},
          reserved: Lists(3)] : Validate(s)}

HasRoom(s) == Allocatable(s) # {}

\* What the author's configurations look like, but for the last line: no end
\* (or end = last), reserved ascending, the last address not reserved.
MCOrdered == {s \in Configs : Orderly(s)}

\* Reserved ascending and inside start..end, which may be anywhere.
MCAscending ==
  {s \in Configs : /\ Ascending(s) /\ HasRoom(s)
                   /\ ReservedIn(s) \subseteq StartOf(s) .. LastOf(s)}

\* Of those, the ones whose range ends before the subnet does.
MCEnded == {s \in MCAscending : ~WholeTail(s)}

\* The shape of the shipped default configuration: a start, the end on the
\* last address of the subnet, and that address reserved.
MCDefault ==
  {s \in Configs : /\ s.start # Nil /\ s.end = s.last /\ HasRoom(s)
                   /\ s.reserved = <<s.last>>}

=============================================================================
