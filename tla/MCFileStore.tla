---------------------------- MODULE MCFileStore ----------------------------
(***************************************************************************)
(* Two clients, two addresses, and their three prefixes: the whole block   *)
(* and its halves.                                                         *)
(***************************************************************************)
EXTENDS FileStore

CONSTANTS c1, c2    \* model values: clients

Block == {0, 1}
MCPrefixes == {Block, {0}, {1}}

=============================================================================
