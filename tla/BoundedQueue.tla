---------------------------- MODULE BoundedQueue ----------------------------
(***************************************************************************)
(* What the ring buffer of synthetic input events promises: a FIFO queue   *)
(* of at most Bound events.  A push into a full queue is refused and       *)
(* changes nothing; a pop takes the oldest event.                          *)
(***************************************************************************)
EXTENDS Integers, Sequences

CONSTANTS Events, Bound, Consumers, NoEvent

VARIABLES queue,  \* the events pushed and not yet popped, oldest first
          popped  \* the last event each consumer's pop returned

Init ==
  /\ queue = << >>
  /\ popped = [c \in Consumers |-> NoEvent]

Push(e) ==
  /\ Len(queue) < Bound
  /\ queue' = Append(queue, e)
  /\ UNCHANGED popped

Pop(c) ==
  /\ queue # << >>
  /\ popped' = [popped EXCEPT ![c] = Head(queue)]
  /\ queue' = Tail(queue)

Next == (\E e \in Events : Push(e)) \/ (\E c \in Consumers : Pop(c))

Spec == Init /\ [][Next]_<<queue, popped>>
=============================================================================
