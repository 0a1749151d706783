------------------------------- MODULE Config -------------------------------
(***************************************************************************)
(* What config.Parse accepts as the subnets of an interface.  A subnet is  *)
(* a prefix: parseSubnet refuses an address that is not the first of its   *)
(* subnet.  A prefix is represented by the set of its addresses.           *)
(***************************************************************************)
EXTENDS Naturals, Sequences

\* Two prefixes are nested or apart.
Nested(prefixes) ==
  \A p, q \in prefixes : p \cap q # {} => p \subseteq q \/ q \subseteq p

\* ipaddr's Prefix.Contains: q is longer, its first and last address in p.
Contains(p, q) == q # p /\ q \subseteq p

Overlaps(p, q) == Contains(p, q) \/ Contains(q, p) \/ p = q

\* Mutant: only a subnet that contains a later one is noticed.
CheckSubnetsInOrder(subnets) ==
  /\ subnets # <<>>
  /\ \A j, k \in DOMAIN subnets : j < k =>
       subnets[j] # subnets[k] /\ ~Contains(subnets[j], subnets[k])

\* At least one subnet, none twice, and no two that overlap.
CheckSubnets(subnets) ==
  /\ subnets # <<>>
  /\ \A j, k \in DOMAIN subnets : j # k => subnets[j] # subnets[k]
  /\ \A j, k \in DOMAIN subnets :
       subnets[j] # subnets[k] => ~Overlaps(subnets[j], subnets[k])

=============================================================================
