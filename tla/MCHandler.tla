----------------------------- MODULE MCHandler -----------------------------
(***************************************************************************)
(* Small instances of Handler: an IPv4 subnet and, where a run is about    *)
(* allocations that span subnets, an IPv6 one.                             *)
(***************************************************************************)
EXTENDS Handler, TLC

CONSTANTS c1, c2, g1, g2,   \* model values: clients, goroutines
  v4a, v4b, v6a             \* and addresses

MCSubnetOf == [a \in Addrs |-> IF a = v6a THEN 2 ELSE 1]
MCFamilyOf == [s \in Subnets |-> IF s = 1 THEN "IPv4" ELSE "IPv6"]

\* What wgdynamic's client sends for a fresh lease: no addresses at all.
AnyFamily == {NoRequest}

\* No addresses, a zero IPv4 address, or an explicit IPv6 address.
AllRequests ==
  AnyFamily \cup {[zeros |-> {"IPv4"}, asked |-> {}],
                  [zeros |-> {}, asked |-> {v6a}]}

\* Two subnets of one family.
BothIPv4 == [s \in Subnets |-> "IPv4"]
TwoIPv4 == [a \in Addrs |-> IF a = v4b THEN 2 ELSE 1]

\* Where all subnets are IPv4: also a zero IPv6 address.
OneFamilyRequests == AnyFamily \cup {[zeros |-> {"IPv6"}, asked |-> {}]}

\* Clients are interchangeable, and so are goroutines.
Symmetry == Permutations(Clients) \cup Permutations(Goroutines)

=============================================================================
