--------------------------- MODULE MCSyntheticHid ---------------------------
(* A finite instance of SyntheticHid. *)
EXTENDS SyntheticHid

\* A descriptor of two bytes.
TwoBytes == [t \in {"device"} |-> 2]

\* A short read of it, a descriptor the device does not have, and a request
\* whose data follows it.
SomeRequests ==
  {[name |-> "GET_DESCRIPTOR", type |-> "device", wLength |-> 1, out |-> FALSE],
   [name |-> "GET_DESCRIPTOR", type |-> "string", wLength |-> 9, out |-> FALSE],
   [name |-> "SET_REPORT", type |-> "none", wLength |-> 1, out |-> TRUE]}
=============================================================================
