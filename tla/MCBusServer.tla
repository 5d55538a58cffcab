---------------------------- MODULE MCBusServer ----------------------------
(* Instances of BusServer for TLC: connections are model values.           *)
EXTENDS BusServer, TLC

Symmetry == Permutations(Conn)

=============================================================================
