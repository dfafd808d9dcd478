------------------------------ MODULE SPSCRing ------------------------------
(***************************************************************************)
(* SPSCRingBuffer.h: the lock-free ring that carries input events from the *)
(* Android UI thread (push, through SyntheticInputJni.cpp) to the threads  *)
(* that call PollSyntheticEvents (pop).  One slot always stays empty, so a *)
(* ring of Capacity slots holds Capacity - 1 events.                       *)
(*                                                                         *)
(* Every atomic load or store and every access to a slot is a step of its  *)
(* own.  The release and acquire orderings make these steps appear in      *)
(* program order, so the interleavings below are all there is, except for  *)
(* the race on a slot, which is the subject of NoSlotRace.                 *)
(***************************************************************************)
EXTENDS Integers, Sequences, FiniteSets

CONSTANTS Capacity,   \* the size given to initRingBuffer
          Events,     \* what the UI may push
          Consumers,  \* threads that pop
          NoEvent     \* the content of a slot before the first push

ASSUME CapacityAssumption == Capacity \in Nat \ {0}
ASSUME EventAssumption == NoEvent \notin Events

VARIABLES
  buffer, head, tail,
  ppc, pushing,           \* push: control point, its argument
  cpc, currentHead, event, \* pop of each consumer: control point and locals
  popped                  \* the event the last successful pop returned

producerVars == <<ppc, pushing>>
consumerVars == <<cpc, currentHead, event, popped>>
vars == <<buffer, head, tail, producerVars, consumerVars>>

Slots == 0 .. Capacity - 1

NextSlot_Unwrapped(i) == i + 1
NextSlot(i) == (i + 1) % Capacity

Init ==
  /\ buffer = [i \in Slots |-> NoEvent]
  /\ head = 0
  /\ tail = 0
  /\ ppc = "idle"
  /\ pushing = NoEvent
  /\ cpc = [c \in Consumers |-> "idle"]
  /\ currentHead = [c \in Consumers |-> 0]
  /\ event = [c \in Consumers |-> NoEvent]
  /\ popped = [c \in Consumers |-> NoEvent]

-----------------------------------------------------------------------------
(* push *)

Full_NoReader == FALSE
Full == NextSlot(tail) = head

PushTest(e) ==
  /\ ppc = "idle"
  /\ ~Full
  /\ ppc' = "write"
  /\ pushing' = e
  /\ UNCHANGED <<buffer, head, tail, consumerVars>>

\* "Buffer full (dropped packet)": push returns false and the JNI caller ignores it.
PushDropped(e) ==
  /\ ppc = "idle"
  /\ Full
  /\ UNCHANGED vars

PushWrite ==
  /\ ppc = "write"
  /\ ppc' = "publish"
  /\ buffer' = [buffer EXCEPT ![tail] = pushing]
  /\ UNCHANGED <<head, tail, pushing, consumerVars>>

PushPublish ==
  /\ ppc = "publish"
  /\ ppc' = "idle"
  /\ pushing' = NoEvent
  /\ tail' = NextSlot(tail)
  /\ UNCHANGED <<buffer, head, consumerVars>>

-----------------------------------------------------------------------------
(* pop *)

PopBegin(c) ==
  /\ cpc[c] = "idle"
  /\ cpc' = [cpc EXCEPT ![c] = "test"]
  /\ currentHead' = [currentHead EXCEPT ![c] = head]
  /\ UNCHANGED <<buffer, head, tail, producerVars, event, popped>>

PopTest_Always(c) ==
  /\ cpc[c] = "test"
  /\ cpc' = [cpc EXCEPT ![c] = "read"]
  /\ UNCHANGED <<buffer, head, tail, producerVars, currentHead, event, popped>>

PopTest(c) ==
  /\ cpc[c] = "test"
  /\ currentHead[c] # tail
  /\ cpc' = [cpc EXCEPT ![c] = "read"]
  /\ UNCHANGED <<buffer, head, tail, producerVars, currentHead, event, popped>>

PopEmpty(c) ==
  /\ cpc[c] = "test"
  /\ currentHead[c] = tail
  /\ cpc' = [cpc EXCEPT ![c] = "idle"]
  /\ UNCHANGED <<buffer, head, tail, producerVars, currentHead, event, popped>>

PopRead(c) ==
  /\ cpc[c] = "read"
  /\ cpc' = [cpc EXCEPT ![c] = "advance"]
  /\ event' = [event EXCEPT ![c] = buffer[currentHead[c]]]
  /\ UNCHANGED <<buffer, head, tail, producerVars, currentHead, popped>>

PopAdvance(c) ==
  /\ cpc[c] = "advance"
  /\ cpc' = [cpc EXCEPT ![c] = "idle"]
  /\ head' = NextSlot(currentHead[c])
  /\ popped' = [popped EXCEPT ![c] = event[c]]
  /\ UNCHANGED <<buffer, tail, producerVars, currentHead, event>>

-----------------------------------------------------------------------------
Push == (\E e \in Events : PushTest(e) \/ PushDropped(e)) \/ PushWrite \/ PushPublish
Pop(c) == PopBegin(c) \/ PopTest(c) \/ PopEmpty(c) \/ PopRead(c) \/ PopAdvance(c)

Next == Push \/ \E c \in Consumers : Pop(c)

Spec == Init /\ [][Next]_vars

-----------------------------------------------------------------------------
(* Properties *)

TypeOK ==
  /\ buffer \in [Slots -> Events \cup {NoEvent}]
  /\ head \in Slots
  /\ tail \in Slots
  /\ ppc \in {"idle", "write", "publish"}
  /\ pushing \in Events \cup {NoEvent}
  /\ cpc \in [Consumers -> {"idle", "test", "read", "advance"}]
  /\ currentHead \in [Consumers -> Slots]
  /\ event \in [Consumers -> Events \cup {NoEvent}]
  /\ popped \in [Consumers -> Events \cup {NoEvent}]

\* The code uses one thread to push and one to pop; the rest of this module's
\* properties are about that use.
OneConsumer == \A c, d \in Consumers : c = d

\* buffer is plain memory: push never writes the slot that pop is reading, and
\* pop never reads a slot push has not published.
NoSlotRace == \A c \in Consumers :
  cpc[c] = "read" => /\ ppc = "write" => currentHead[c] # tail
                     /\ buffer[currentHead[c]] # NoEvent

\* The events between head and tail, across the wrap at the end of buffer.
Used == IF head <= tail THEN tail - head ELSE tail - head + Capacity
Slot(k) == IF head + k < Capacity THEN head + k ELSE head + k - Capacity
Contents == [k \in 1 .. Used |-> buffer[Slot(k - 1)]]

Queue == INSTANCE BoundedQueue WITH
           queue <- Contents, popped <- popped, Bound <- Capacity - 1

\* The ring is a FIFO queue of at most Capacity - 1 events: a push takes effect
\* when tail is stored, a pop when head is, nothing is lost, repeated or overtaken.
FIFO == Queue!Spec
=============================================================================
