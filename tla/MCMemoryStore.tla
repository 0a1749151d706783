--------------------------- MODULE MCMemoryStore ---------------------------
(***************************************************************************)
(* Two clients and the purge loop over one address.                        *)
(***************************************************************************)
EXTENDS MemoryStore

CONSTANTS c1, c2, a1    \* model values: clients, an address

=============================================================================
