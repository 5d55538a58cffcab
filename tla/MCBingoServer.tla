--------------------------- MODULE MCBingoServer ---------------------------
(* Instances of BingoServer for TLC: connections are model values.         *)
EXTENDS BingoServer, TLC

Symmetry == Permutations(Conn)

=============================================================================
