---------------------------- MODULE MCDeviceFds ----------------------------
(* Finite instances of DeviceFds. *)
EXTENDS DeviceFds, TLC

CONSTANTS b1, c1, c2, n1, n2, n3

\* Connections are alike, and so are numbers.
Alike == Permutations(Conns) \cup Permutations(Numbers)
=============================================================================
