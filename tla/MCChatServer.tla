---------------------------- MODULE MCChatServer ----------------------------
(* Instances of ChatServer for TLC: connections are model values.          *)
EXTENDS ChatServer, TLC

Symmetry == Permutations(Talkers) \cup Permutations(Conn \ Talkers)

=============================================================================
