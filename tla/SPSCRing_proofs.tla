--------------------------- MODULE SPSCRing_proofs ---------------------------
(***************************************************************************)
(* Proofs about SPSCRing for every capacity and every set of events, when  *)
(* one thread pops: the slots are free of races, and the ring implements   *)
(* BoundedQueue.  The inductive invariant says where each thread stands:   *)
(* a consumer inside pop works on head, a producer past its test has a     *)
(* free slot, and the slots from head up to tail hold events.              *)
(***************************************************************************)
EXTENDS SPSCRing, SequenceTheorems, TLAPS

\* The slots from head up to, and without, tail.
Live(i) == IF head <= tail THEN head <= i /\ i < tail ELSE head <= i \/ i < tail

ProducerAhead ==
  /\ ppc \in {"write", "publish"} => NextSlot(tail) # head /\ pushing \in Events
  /\ ppc = "publish" => buffer[tail] = pushing

ConsumerAtHead == \A c \in Consumers :
  /\ cpc[c] # "idle" => currentHead[c] = head
  /\ cpc[c] \in {"read", "advance"} => head # tail
  /\ cpc[c] = "advance" => event[c] = buffer[head]

LiveSlots == \A i \in Slots : Live(i) => buffer[i] \in Events

Inv == TypeOK /\ ProducerAhead /\ ConsumerAtHead /\ LiveSlots

-----------------------------------------------------------------------------
LEMMA SelfModulo == Capacity % Capacity = 0
BY CapacityAssumption

\* The step to the next slot, without the remainder.
LEMMA NextSlotValue ==
  ASSUME NEW i \in Slots
  PROVE  NextSlot(i) = IF i + 1 = Capacity THEN 0 ELSE i + 1
<1>1. CASE i + 1 = Capacity
  BY <1>1, SelfModulo, CapacityAssumption DEF NextSlot, Slots
<1>2. CASE i + 1 # Capacity
  BY <1>2, CapacityAssumption DEF NextSlot, Slots
<1> QED  BY <1>1, <1>2

LEMMA NextSlotType ==
  ASSUME NEW i \in Slots
  PROVE  NextSlot(i) \in Slots
BY NextSlotValue, CapacityAssumption DEF Slots

LEMMA InitInv == Init => Inv
BY CapacityAssumption DEF Init, Inv, TypeOK, ProducerAhead, ConsumerAtHead, LiveSlots, Live, Slots

LEMMA NextInv ==
  ASSUME OneConsumer, Inv, [Next]_vars
  PROVE  Inv'
<1> USE DEF Inv, producerVars, consumerVars
<1>1. ASSUME NEW e \in Events, PushTest(e)
      PROVE  Inv'
  <2>1. TypeOK'
    BY <1>1 DEF PushTest, TypeOK
  <2>2. (ProducerAhead /\ ConsumerAtHead /\ LiveSlots)'
    BY <1>1 DEF PushTest, Full, ProducerAhead, ConsumerAtHead, LiveSlots, Live
  <2> QED  BY <2>1, <2>2
<1>2. CASE PushWrite
  <2>1. TypeOK'
    BY <1>2 DEF PushWrite, TypeOK
  <2>2. ProducerAhead'
    BY <1>2 DEF PushWrite, ProducerAhead, TypeOK
  <2>3. ConsumerAtHead'
    BY <1>2 DEF PushWrite, ConsumerAtHead, TypeOK
  <2>4. LiveSlots'
    BY <1>2 DEF PushWrite, ProducerAhead, LiveSlots, Live, TypeOK
  <2> QED  BY <2>1, <2>2, <2>3, <2>4
<1>3. CASE PushPublish
  <2>0. tail \in Slots /\ tail' = IF tail + 1 = Capacity THEN 0 ELSE tail + 1
    BY <1>3, NextSlotValue DEF PushPublish, TypeOK
  <2>1. TypeOK'
    BY <1>3, NextSlotType DEF PushPublish, TypeOK
  <2>2. ProducerAhead'
    BY <1>3 DEF PushPublish, ProducerAhead
  <2>3. ConsumerAtHead'
    BY <1>3 DEF PushPublish, ConsumerAtHead, ProducerAhead
  <2>4. LiveSlots'
    BY <1>3, <2>0, CapacityAssumption
    DEF PushPublish, ProducerAhead, LiveSlots, Live, TypeOK, Slots
  <2> QED  BY <2>1, <2>2, <2>3, <2>4
<1>4. ASSUME NEW c \in Consumers, PopBegin(c)
      PROVE  Inv'
  BY <1>4 DEF PopBegin, TypeOK, ProducerAhead, ConsumerAtHead, LiveSlots, Live
<1>5. ASSUME NEW c \in Consumers, PopTest(c)
      PROVE  Inv'
  BY <1>5 DEF PopTest, TypeOK, ProducerAhead, ConsumerAtHead, LiveSlots, Live
<1>6. ASSUME NEW c \in Consumers, PopEmpty(c)
      PROVE  Inv'
  BY <1>6 DEF PopEmpty, TypeOK, ProducerAhead, ConsumerAtHead, LiveSlots, Live
<1>7. ASSUME NEW c \in Consumers, PopRead(c)
      PROVE  Inv'
  <2>1. TypeOK'
    BY <1>7 DEF PopRead, TypeOK
  <2>2. (ProducerAhead /\ LiveSlots)'
    BY <1>7 DEF PopRead, ProducerAhead, LiveSlots, Live
  <2>3. ConsumerAtHead'
    BY <1>7 DEF PopRead, TypeOK, ConsumerAtHead
  <2> QED  BY <2>1, <2>2, <2>3
<1>8. ASSUME NEW c \in Consumers, PopAdvance(c)
      PROVE  Inv'
  <2>0. /\ head \in Slots /\ tail \in Slots /\ head # tail
        /\ head' = IF head + 1 = Capacity THEN 0 ELSE head + 1
    BY <1>8, NextSlotValue DEF PopAdvance, ConsumerAtHead, TypeOK
  <2>1. TypeOK'
    <3>1. head' \in Slots
      BY <2>0, CapacityAssumption DEF Slots
    <3>2. event[c] \in Events \cup {NoEvent}
      BY DEF TypeOK
    <3> QED  BY <1>8, <3>1, <3>2 DEF PopAdvance, TypeOK
  <2>2. ProducerAhead'
    BY <1>8, <2>0, NextSlotValue, CapacityAssumption DEF PopAdvance, ProducerAhead, Slots
  <2>3. ConsumerAtHead'
    BY <1>8 DEF PopAdvance, ConsumerAtHead, TypeOK, OneConsumer
  <2>4. LiveSlots'
    BY <1>8, <2>0, CapacityAssumption DEF PopAdvance, LiveSlots, Live, TypeOK, Slots
  <2> QED  BY <2>1, <2>2, <2>3, <2>4
<1>9. CASE UNCHANGED vars
  BY <1>9 DEF vars, TypeOK, ProducerAhead, ConsumerAtHead, LiveSlots, Live
<1> QED
  BY <1>1, <1>2, <1>3, <1>4, <1>5, <1>6, <1>7, <1>8, <1>9 DEF Next, Push, Pop, PushDropped

-----------------------------------------------------------------------------
(* The ring as a queue *)

LEMMA TailValue ==
  ASSUME NEW S, NEW q \in Seq(S), q # << >>
  PROVE  Tail(q) = [k \in 1 .. Len(q) - 1 |-> q[k + 1]]
<1>1. Tail(q) \in [1 .. Len(q) - 1 -> S]
  BY HeadTailProperties, LenProperties
<1>2. \A k \in 1 .. Len(q) - 1 : Tail(q)[k] = q[k + 1]
  BY HeadTailProperties
<1> QED
  BY <1>1, <1>2

LEMMA UsedType ==
  ASSUME TypeOK
  PROVE  /\ Used \in 0 .. Capacity - 1
         /\ Contents \in Seq(Events \cup {NoEvent})
         /\ Len(Contents) = Used
<1>1. Used \in 0 .. Capacity - 1
  BY CapacityAssumption DEF Used, TypeOK, Slots
<1>2. \A k \in 1 .. Used : Slot(k - 1) \in Slots
  BY <1>1, CapacityAssumption DEF Slot, TypeOK, Slots
<1>3. Contents \in [1 .. Used -> Events \cup {NoEvent}]
  BY <1>2 DEF Contents, TypeOK
<1> QED
  BY <1>1, <1>3 DEF Contents

\* A position of the queue is a live slot, and never tail.
LEMMA SlotLive ==
  ASSUME TypeOK, NEW k \in 0 .. Used - 1
  PROVE  Slot(k) \in Slots /\ Live(Slot(k)) /\ Slot(k) # tail
BY CapacityAssumption DEF TypeOK, Slot, Used, Live, Slots

\* Steps that move neither end and leave the live slots alone.
LEMMA ContentsUnchanged ==
  ASSUME TypeOK, head' = head, tail' = tail,
         \A i \in Slots : i # tail => buffer'[i] = buffer[i]
  PROVE  Contents' = Contents
<1>1. Used' = Used /\ \A k \in 0 .. Used - 1 : Slot(k)' = Slot(k)
  BY DEF Used, Slot
<1>2. \A k \in 1 .. Used : k - 1 \in 0 .. Used - 1
  BY UsedType
<1>3. \A k \in 1 .. Used : buffer'[Slot(k - 1)] = buffer[Slot(k - 1)]
  BY <1>2, SlotLive
<1>4. \A k \in 1 .. Used : Slot(k - 1)' = Slot(k - 1)
  BY <1>1, <1>2
<1> QED
  BY <1>1, <1>3, <1>4 DEF Contents

LEMMA PublishPushes ==
  ASSUME Inv, PushPublish
  PROVE  Queue!Push(pushing)
<1> USE DEF Inv
<1>0. /\ head \in Slots /\ tail \in Slots /\ NextSlot(tail) # head
      /\ tail' = IF tail + 1 = Capacity THEN 0 ELSE tail + 1
      /\ head' = head /\ buffer' = buffer /\ popped' = popped
      /\ buffer[tail] = pushing
  BY NextSlotValue DEF PushPublish, TypeOK, ProducerAhead, consumerVars
<1>1. Used' = Used + 1 /\ Used < Capacity - 1
  BY <1>0, NextSlotValue, CapacityAssumption DEF Used, Slots
<1>2. Slot(Used) = tail
  BY <1>0, CapacityAssumption DEF Slot, Used, Slots
<1>3. \A k \in Int : Slot(k)' = Slot(k)
  BY <1>0 DEF Slot
<1>4. Contents' = [k \in 1 .. Used + 1 |-> buffer[Slot(k - 1)]]
  BY <1>0, <1>1, <1>3 DEF Contents
<1>5. Contents' = Append(Contents, pushing)
  <2>1. Append(Contents, pushing) =
          [k \in 1 .. Used + 1 |-> IF k = Used + 1 THEN pushing ELSE Contents[k]]
    BY UsedType DEF Contents
  <2>2. \A k \in 1 .. Used : Contents[k] = buffer[Slot(k - 1)]
    BY DEF Contents
  <2>3. buffer[Slot(Used + 1 - 1)] = pushing
    BY <1>0, <1>2, UsedType
  <2> QED
    BY <1>4, <2>1, <2>2, <2>3, UsedType
<1> QED
  BY <1>0, <1>1, <1>5, UsedType DEF Queue!Push

LEMMA AdvancePops ==
  ASSUME Inv, OneConsumer, NEW c \in Consumers, PopAdvance(c)
  PROVE  Queue!Pop(c)
<1> USE DEF Inv
<1>0. /\ head \in Slots /\ tail \in Slots /\ head # tail
      /\ head' = IF head + 1 = Capacity THEN 0 ELSE head + 1
      /\ tail' = tail /\ buffer' = buffer
      /\ event[c] = buffer[head]
      /\ popped' = [popped EXCEPT ![c] = buffer[head]]
  BY NextSlotValue DEF PopAdvance, TypeOK, ConsumerAtHead
<1>1. Used' = Used - 1 /\ Used >= 1
  BY <1>0, CapacityAssumption DEF Used, Slots
<1>2. \A k \in 0 .. Used - 2 : Slot(k)' = Slot(k + 1)
  BY <1>0, CapacityAssumption DEF Slot, Used, Slots
<1>3. Contents # << >> /\ Head(Contents) = buffer[head]
  <2>1. Slot(0) = head
    BY <1>0, CapacityAssumption DEF Slot, Slots
  <2> QED  BY <1>1, <2>1, UsedType DEF Contents
<1>4. Contents' = Tail(Contents)
  <2>1. Contents' = [k \in 1 .. Used - 1 |-> buffer[Slot(k)]]
    <3>1. \A k \in 1 .. Used - 1 : Slot(k - 1)' = Slot(k)
      BY <1>2, UsedType
    <3> QED  BY <1>0, <1>1, <3>1 DEF Contents
  <2>2. Tail(Contents) = [k \in 1 .. Used - 1 |-> Contents[k + 1]]
    BY <1>1, <1>3, UsedType, TailValue
  <2>3. \A k \in 1 .. Used - 1 : Contents[k + 1] = buffer[Slot(k)]
    BY UsedType DEF Contents
  <2> QED  BY <2>1, <2>2, <2>3
<1> QED
  BY <1>0, <1>3, <1>4 DEF Queue!Pop

LEMMA StepImplements ==
  ASSUME Inv, OneConsumer, [Next]_vars
  PROVE  [Queue!Next]_<<Contents, popped>>
<1>1. ASSUME NEW e \in Events, PushTest(e) \/ PushDropped(e)
      PROVE  UNCHANGED <<Contents, popped>>
  BY <1>1, ContentsUnchanged DEF PushTest, PushDropped, vars, producerVars, consumerVars, Inv
<1>2. CASE PushWrite
  <2>1. \A i \in Slots : i # tail => buffer'[i] = buffer[i]
    BY <1>2 DEF PushWrite, Inv, TypeOK
  <2> QED  BY <1>2, <2>1, ContentsUnchanged DEF PushWrite, consumerVars, Inv
<1>3. CASE PushPublish
  BY <1>3, PublishPushes DEF Queue!Next, Inv, ProducerAhead, PushPublish
<1>4. ASSUME NEW c \in Consumers, PopBegin(c) \/ PopTest(c) \/ PopEmpty(c) \/ PopRead(c)
      PROVE  UNCHANGED <<Contents, popped>>
  BY <1>4, ContentsUnchanged DEF PopBegin, PopTest, PopEmpty, PopRead, Inv
<1>5. ASSUME NEW c \in Consumers, PopAdvance(c)
      PROVE  Queue!Next
  BY <1>5, AdvancePops DEF Queue!Next
<1>6. CASE UNCHANGED vars
  BY <1>6, ContentsUnchanged DEF vars, consumerVars, Inv
<1> QED
  BY <1>1, <1>2, <1>3, <1>4, <1>5, <1>6 DEF Next, Push, Pop

-----------------------------------------------------------------------------
\* The indices and flags agree with the points the producer and the consumer are at.
THEOREM Invariance == OneConsumer => (Spec => []Inv)
<1> SUFFICES ASSUME OneConsumer PROVE Spec => []Inv
  OBVIOUS
<1>1. Init => Inv
  BY InitInv
<1>2. Inv /\ [Next]_vars => Inv'
  BY NextInv
<1> QED
  BY <1>1, <1>2, PTL DEF Spec

\* For every capacity the indices stay inside buffer and the flags are well formed.
THEOREM TypeCorrect == OneConsumer => (Spec => []TypeOK)
<1>1. Inv => TypeOK
  BY DEF Inv
<1> QED
  BY <1>1, Invariance, PTL

\* For every capacity, push and pop never touch the same slot at the same time, and
\* pop only reads what push has published.
THEOREM RaceFree == OneConsumer => (Spec => []NoSlotRace)
<1>1. Inv => NoSlotRace
  BY EventAssumption DEF Inv, TypeOK, ConsumerAtHead, LiveSlots, Live, NoSlotRace, Slots
<1> QED
  BY <1>1, Invariance, PTL

\* For every capacity the ring implements the bounded FIFO queue.
THEOREM ImplementsQueue == OneConsumer => (Spec => FIFO)
<1> SUFFICES ASSUME OneConsumer PROVE Spec => FIFO
  OBVIOUS
<1>1. Init => Queue!Init
  BY CapacityAssumption DEF Init, Queue!Init, Contents, Used
<1>2. Inv /\ [Next]_vars => [Queue!Next]_<<Contents, popped>>
  BY StepImplements
<1> QED
  BY <1>1, <1>2, Invariance, PTL DEF Spec, FIFO, Queue!Spec
=============================================================================
