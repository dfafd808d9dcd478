-------------------------- MODULE MCKeyboardReport --------------------------
(* Instances of KeyboardReport for TLC. *)
EXTENDS KeyboardReport, TLC

\* Nothing tells one mapped key from another.
KeySymmetry == Permutations(Keys)
=============================================================================
