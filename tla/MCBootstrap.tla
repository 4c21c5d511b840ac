---------------------------- MODULE MCBootstrap ----------------------------
(* The instance of Bootstrap with two nodes.                               *)
EXTENDS Bootstrap

CONSTANTS n1, n2

=============================================================================
