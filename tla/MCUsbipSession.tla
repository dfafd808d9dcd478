--------------------------- MODULE MCUsbipSession ---------------------------
(* Finite instances of UsbipSession for TLC. *)
EXTENDS UsbipSession, TLC

CONSTANTS s1, s2, d1, d2, q1, q2, q3

OneDevice == [s \in Sessions |-> d1]
TwoDevices == (s1 :> d1) @@ (s2 :> d2)

OneClient == {s1} \X {q1, q2, q3}
TwoClients == {<<s1, q1>>, <<s2, q1>>}
UnlinkingClient == {<<s1, q1>>, <<s1, q2>>}
=============================================================================
