------------------------ MODULE KeyboardReport_proofs ------------------------
(***************************************************************************)
(* Proofs about KeyboardReport, for any keys, modifiers and other codes.   *)
(*                                                                         *)
(* The report is a sequence without gap or repetition in six slots, which  *)
(* is what makes one removal enough for a release.  That a press finds a   *)
(* free slot, unless a seventh key is down, takes the number of the keys   *)
(* that are down: its finiteness is part of the invariant.                 *)
(***************************************************************************)
EXTENDS KeyboardReport, TLAPS, FiniteSetTheorems

Report == [Slots -> Keys \cup {NoKey}]

\* The keys a report shows, and its being without gap or repetition.
InReport(a) == {a[i] : i \in Slots} \ {NoKey}
Packed(a) ==
  \A i, j \in Slots :
    i < j => /\ a[i] = NoKey => a[j] = NoKey
             /\ a[i] # NoKey => a[i] # a[j]

LEMMA SixSlots == Cardinality(Slots) = 6
<1>1. \A a, b \in Int : Cardinality(a..b) = IF a > b THEN 0 ELSE b - a + 1
  BY FS_Interval
<1> 1 \in Int /\ 6 \in Int
  OBVIOUS
<1>2. Cardinality(1..6) = IF 1 > 6 THEN 0 ELSE 6 - 1 + 1
  BY <1>1, Zenon
<1> QED
  BY <1>2 DEF Slots

LEMMA FirstSlot ==
  ASSUME NEW S \in SUBSET Slots, S # {}
  PROVE  First(S) \in S /\ \A j \in S : First(S) <= j
<1>1. \E i \in S : \A j \in S : i <= j
  <2>1. CASE 1 \in S
    BY <2>1 DEF Slots
  <2>2. CASE 1 \notin S /\ 2 \in S
    BY <2>2 DEF Slots
  <2>3. CASE 1 \notin S /\ 2 \notin S /\ 3 \in S
    BY <2>3 DEF Slots
  <2>4. CASE 1 \notin S /\ 2 \notin S /\ 3 \notin S /\ 4 \in S
    BY <2>4 DEF Slots
  <2>5. CASE 1 \notin S /\ 2 \notin S /\ 3 \notin S /\ 4 \notin S /\ 5 \in S
    BY <2>5 DEF Slots
  <2>6. CASE 1 \notin S /\ 2 \notin S /\ 3 \notin S /\ 4 \notin S /\ 5 \notin S
    <3>1. 6 \in S /\ \A j \in S : j = 6
      <4>1. \A j \in S : j = 6
        BY <2>6 DEF Slots
      <4> QED  BY <4>1
    <3> QED  BY <3>1
  <2> QED  BY <2>1, <2>2, <2>3, <2>4, <2>5, <2>6
<1> QED  BY <1>1 DEF First

\* Insertion adds the key, unless it is there or no slot is free.
LEMMA InsertKey ==
  ASSUME NEW a \in Report, Packed(a), NEW k \in Keys
  PROVE  /\ Insert(a, k) \in Report
         /\ Packed(Insert(a, k))
         /\ InReport(Insert(a, k)) = IF SlotsOf(a, NoKey) = {} THEN InReport(a) ELSE InReport(a) \cup {k}
<1> USE KeyAssumption DEF Report
<1>1. CASE SlotsOf(a, k) # {} \/ SlotsOf(a, NoKey) = {}
  <2>1. Insert(a, k) = a
    BY <1>1 DEF Insert
  <2>2. SlotsOf(a, k) # {} => InReport(a) = InReport(a) \cup {k}
    BY DEF SlotsOf, InReport
  <2> QED  BY <1>1, <2>1, <2>2
<1>2. CASE SlotsOf(a, k) = {} /\ SlotsOf(a, NoKey) # {}
  <2> DEFINE f == First(SlotsOf(a, NoKey))
  <2>1. f \in Slots /\ a[f] = NoKey /\ \A j \in Slots : a[j] = NoKey => f <= j
    BY <1>2, FirstSlot DEF SlotsOf
  <2>2. Insert(a, k) = [a EXCEPT ![f] = k]
    BY <1>2 DEF Insert
  <2>3. \A j \in Slots : a[j] # k
    BY <1>2 DEF SlotsOf
  <2> HIDE DEF f
  <2>4. Insert(a, k) \in Report
    BY <2>1, <2>2
  <2>5. \A j \in Slots : Insert(a, k)[j] = IF j = f THEN k ELSE a[j]
    BY <2>1, <2>2
  <2>6. Packed(Insert(a, k))
    <3> SUFFICES ASSUME NEW i \in Slots, NEW j \in Slots, i < j
                 PROVE  /\ Insert(a, k)[i] = NoKey => Insert(a, k)[j] = NoKey
                        /\ Insert(a, k)[i] # NoKey => Insert(a, k)[i] # Insert(a, k)[j]
      BY DEF Packed
    <3>1. f < j => a[j] = NoKey
      BY <2>1 DEF Packed
    <3>2. i < f => a[i] # NoKey
      BY <2>1 DEF Slots
    <3> QED  BY <2>1, <2>3, <2>5, <3>1, <3>2 DEF Packed, Slots
  <2>7. InReport(Insert(a, k)) = InReport(a) \cup {k}
    BY <2>1, <2>5 DEF InReport
  <2> QED  BY <1>2, <2>4, <2>6, <2>7
<1> QED  BY <1>1, <1>2

\* Removal takes the key out, and the keys behind it close the gap.
LEMMA RemoveKey ==
  ASSUME NEW a \in Report, Packed(a), NEW k \in Keys
  PROVE  /\ Remove(a, k) \in Report
         /\ Packed(Remove(a, k))
         /\ InReport(Remove(a, k)) = InReport(a) \ {k}
<1> USE KeyAssumption DEF Report
<1>1. CASE SlotsOf(a, k) = {}
  <2>1. Remove(a, k) = a
    BY <1>1 DEF Remove
  <2>2. InReport(a) = InReport(a) \ {k}
    BY <1>1 DEF SlotsOf, InReport
  <2> QED  BY <2>1, <2>2
<1>2. CASE SlotsOf(a, k) # {}
  <2> DEFINE f == First(SlotsOf(a, k))
  <2>1. f \in Slots /\ a[f] = k
    BY <1>2, FirstSlot DEF SlotsOf
  <2>2. Remove(a, k) = [i \in Slots |-> IF i < f THEN a[i] ELSE IF i < 6 THEN a[i + 1] ELSE NoKey]
    BY <1>2 DEF Remove
  <2> HIDE DEF f
  <2> DEFINE b == Remove(a, k)
  <2>3. \A i \in Slots : b[i] = IF i < f THEN a[i] ELSE IF i < 6 THEN a[i + 1] ELSE NoKey
    BY <2>2
  <2>4. \A i \in Slots : i < 6 => i + 1 \in Slots
    BY DEF Slots
  <2>5. b \in Report
    BY <2>2, <2>4
  <2> HIDE DEF b
  <2>6. \A j \in Slots : j # f => a[j] # k
    BY <2>1 DEF Packed, Slots
  <2>7. Packed(b)
    <3> SUFFICES ASSUME NEW i \in Slots, NEW j \in Slots, i < j
                 PROVE  (b[i] = NoKey => b[j] = NoKey) /\ (b[i] # NoKey => b[i] # b[j])
      BY DEF Packed
    <3>1. i < 6 /\ i + 1 \in Slots
      BY DEF Slots
    <3>2. CASE j < f
      <4>1. i < f
        BY <2>1, <3>2 DEF Slots
      <4>2. b[i] = a[i] /\ b[j] = a[j]
        BY <2>3, <3>2, <4>1
      <4> QED  BY <4>2 DEF Packed
    <3>3. CASE f <= i
      <4>1. b[i] = a[i + 1]
        BY <2>1, <2>3, <3>1, <3>3 DEF Slots
      <4>2. CASE j < 6
        <5>1. j + 1 \in Slots /\ i + 1 < j + 1 /\ b[j] = a[j + 1]
          BY <2>1, <2>3, <3>3, <4>2 DEF Slots
        <5> QED  BY <3>1, <4>1, <5>1 DEF Packed
      <4>3. CASE j = 6
        BY <2>1, <2>3, <3>3, <4>1, <4>3 DEF Slots
      <4> QED  BY <4>2, <4>3 DEF Slots
    <3>4. CASE i < f /\ f <= j
      <4>1. b[i] = a[i] /\ a[i] # NoKey
        BY <2>1, <2>3, <3>4 DEF Packed
      <4>2. CASE j < 6
        <5>1. j + 1 \in Slots /\ i < j + 1 /\ b[j] = a[j + 1]
          BY <2>1, <2>3, <3>4, <4>2 DEF Slots
        <5> QED  BY <4>1, <5>1 DEF Packed
      <4>3. CASE j = 6
        BY <2>1, <2>3, <3>4, <4>1, <4>3 DEF Slots
      <4> QED  BY <4>2, <4>3 DEF Slots
    <3> QED  BY <2>1, <3>2, <3>3, <3>4 DEF Slots
  <2>8. InReport(b) = InReport(a) \ {k}
    <3>1. ASSUME NEW x \in InReport(b)
          PROVE  x \in InReport(a) \ {k}
      <4>1. PICK i \in Slots : b[i] = x /\ x # NoKey
        BY <3>1 DEF InReport
      <4>2. \E j \in Slots : j # f /\ a[j] = x
        BY <2>1, <2>3, <2>4, <4>1 DEF Slots
      <4> QED  BY <2>6, <4>1, <4>2 DEF InReport
    <3>2. ASSUME NEW x \in InReport(a) \ {k}
          PROVE  x \in InReport(b)
      <4>1. PICK j \in Slots : a[j] = x /\ x # NoKey /\ j # f
        BY <2>1, <3>2 DEF InReport
      <4>2. CASE j < f
        BY <2>3, <4>1, <4>2 DEF InReport
      <4>3. CASE j > f
        <5>1. j - 1 \in Slots /\ ~(j - 1 < f) /\ j - 1 < 6 /\ (j - 1) + 1 = j
          BY <2>1, <4>3 DEF Slots
        <5>2. b[j - 1] = a[j]
          BY <2>3, <5>1
        <5> QED  BY <4>1, <5>1, <5>2 DEF InReport
      <4> QED  BY <2>1, <4>1, <4>2, <4>3 DEF Slots
    <3> QED  BY <3>1, <3>2
  <2> QED  BY <2>5, <2>7, <2>8 DEF b
<1> QED  BY <1>1, <1>2

\* Six slots without a free one show six keys.
LEMMA FullReport ==
  ASSUME NEW a \in Report, Packed(a), SlotsOf(a, NoKey) = {}
  PROVE  IsFiniteSet(InReport(a)) /\ Cardinality(InReport(a)) = 6
<1>1. \A i, j \in Slots : i # j => a[i] # a[j]
  BY DEF Packed, SlotsOf, Slots
<1>2. InReport(a) = {a[1]} \cup {a[2]} \cup {a[3]} \cup {a[4]} \cup {a[5]} \cup {a[6]}
  BY DEF InReport, SlotsOf, Slots
<1> DEFINE A1 == {a[1]}  A2 == A1 \cup {a[2]}  A3 == A2 \cup {a[3]}
           A4 == A3 \cup {a[4]}  A5 == A4 \cup {a[5]}  A6 == A5 \cup {a[6]}
<1>3. IsFiniteSet(A1) /\ Cardinality(A1) = 1
  BY FS_Singleton
<1>4. a[2] \notin A1 /\ a[3] \notin A2 /\ a[4] \notin A3 /\ a[5] \notin A4 /\ a[6] \notin A5
  BY <1>1 DEF Slots
<1> HIDE DEF A1
<1>5. IsFiniteSet(A2) /\ Cardinality(A2) = 2
  BY <1>3, <1>4, FS_AddElement
<1> HIDE DEF A2
<1>6. IsFiniteSet(A3) /\ Cardinality(A3) = 3
  BY <1>4, <1>5, FS_AddElement
<1> HIDE DEF A3
<1>7. IsFiniteSet(A4) /\ Cardinality(A4) = 4
  BY <1>4, <1>6, FS_AddElement
<1> HIDE DEF A4
<1>8. IsFiniteSet(A5) /\ Cardinality(A5) = 5
  BY <1>4, <1>7, FS_AddElement
<1> HIDE DEF A5
<1>9. IsFiniteSet(A6) /\ Cardinality(A6) = 6
  BY <1>4, <1>8, FS_AddElement
<1>10. InReport(a) = A6
  BY <1>2 DEF A1, A2, A3, A4, A5
<1> QED  BY <1>9, <1>10

-----------------------------------------------------------------------------
Types ==
  /\ keycodes \in Report
  /\ modifiers \subseteq Modifiers
  /\ Unreleased \subseteq Keys \cup Modifiers \cup Others
  /\ rollover \in BOOLEAN

\* The last report is the state, and the state is what the user did.
Inv ==
  /\ Types
  /\ Packed(keycodes)
  /\ reported = <<keycodes, modifiers>>
  /\ InReport(keycodes) \subseteq Down
  /\ modifiers \subseteq Unreleased
  /\ IsFiniteSet(Down)
  /\ ~rollover => Down \subseteq InReport(keycodes)

LEMMA NoKeysReport == NoKeys \in Report /\ Packed(NoKeys) /\ InReport(NoKeys) = {}
BY DEF NoKeys, Report, Packed, InReport

LEMMA InitInv == Init => Inv
<1> SUFFICES ASSUME Init PROVE Inv
  OBVIOUS
<1>1. Down = {}
  BY DEF Init, Down, Unreleased
<1> QED  BY <1>1, NoKeysReport, FS_EmptySet DEF Init, Inv, Types, Unreleased

\* A step that leaves the keys down and the report alone.
LEMMA DownUnchanged ==
  ASSUME UNCHANGED <<held, stuck>>
  PROVE  Down' = Down
BY DEF Down, Unreleased

LEMMA KeyDownInv ==
  ASSUME Inv, NEW k \in Keys \cup Modifiers \cup Others, KeyDown(k)
  PROVE  Inv'
<1> USE DEF Inv, Unreleased
<1>1. held' = held \cup {k} /\ stuck' = stuck \ {k}
  BY DEF KeyDown
<1>2. Down' = IF k \in Keys THEN Down \cup {k} ELSE Down
  BY <1>1 DEF Down
<1>3. IsFiniteSet(Down')
  BY <1>2, FS_AddElement
<1>4. rollover' = (rollover \/ Cardinality(Down') > Cardinality(Slots))
  BY DEF KeyDown
<1>5. Unreleased' \subseteq Keys \cup Modifiers \cup Others
  BY <1>1 DEF Types
<1>6. rollover' \in BOOLEAN
  BY <1>4 DEF Types
<1>7. modifiers \subseteq Unreleased'
  BY <1>1
<1>8. CASE ProcessStandardKey(k, TRUE) /\ reported' = <<keycodes', modifiers'>>
  <2>1. k \in Keys /\ keycodes' = Insert(keycodes, k) /\ UNCHANGED modifiers
    BY <1>8 DEF ProcessStandardKey
  <2>2. /\ keycodes' \in Report /\ Packed(keycodes')
        /\ InReport(keycodes') = IF SlotsOf(keycodes, NoKey) = {} THEN InReport(keycodes)
                                                                ELSE InReport(keycodes) \cup {k}
    BY <2>1, InsertKey DEF Types
  <2>3. InReport(keycodes') \subseteq Down'
    BY <1>2, <2>1, <2>2
  <2>4. ~rollover' => Down' \subseteq InReport(keycodes')
    <3> SUFFICES ASSUME ~rollover' PROVE Down' \subseteq InReport(keycodes')
      OBVIOUS
    <3>1. ~rollover /\ ~(Cardinality(Down') > Cardinality(Slots))
      BY <1>4
    <3>2. Down = InReport(keycodes) /\ Down' = Down \cup {k}
      BY <1>2, <2>1, <3>1
    <3>3. CASE SlotsOf(keycodes, NoKey) # {}
      BY <2>2, <3>2, <3>3
    <3>4. CASE SlotsOf(keycodes, NoKey) = {}
      <4>1. IsFiniteSet(Down) /\ Cardinality(Down) = 6
        BY <3>2, <3>4, FullReport DEF Types
      <4>2. Cardinality(Slots) = 6
        BY SixSlots
      <4>3. k \in Down
        BY <3>1, <3>2, <4>1, <4>2, FS_AddElement
      <4> QED  BY <2>2, <3>2, <3>4, <4>3
    <3> QED  BY <3>3, <3>4
  <2>5. Types'
    BY <1>5, <1>6, <2>1, <2>2 DEF Types
  <2> QED  BY <1>3, <1>7, <1>8, <2>1, <2>2, <2>3, <2>4, <2>5
<1>9. CASE \/ HandleModifierKey(k, TRUE) /\ reported' = <<keycodes', modifiers'>>
           \/ k \in Others /\ UNCHANGED <<keycodes, modifiers, reported>>
  <2>1. k \notin Keys
    BY <1>9, DisjointAssumption DEF HandleModifierKey
  <2>2. /\ UNCHANGED keycodes /\ reported' = <<keycodes', modifiers'>>
        /\ modifiers' \subseteq Modifiers
        /\ modifiers' \subseteq modifiers \cup {k}
    BY <1>9 DEF HandleModifierKey, Types
  <2>3. Down' = Down
    BY <1>2, <2>1
  <2>4. Types'
    BY <1>5, <1>6, <2>2 DEF Types
  <2>5. ~rollover' => ~rollover
    BY <1>4
  <2>6. modifiers' \subseteq Unreleased'
    BY <1>1, <1>7, <2>2
  <2> QED  BY <1>3, <2>2, <2>3, <2>4, <2>5, <2>6
<1> QED
  BY <1>8, <1>9 DEF KeyDown, PollKeyEvent

LEMMA KeyUpInv ==
  ASSUME Inv, NEW k \in Keys \cup Modifiers \cup Others, KeyUp(k)
  PROVE  Inv'
<1> USE DEF Inv, Unreleased
<1>1. held' = held \ {k} /\ stuck' = stuck \ {k}
  BY DEF KeyUp
<1>2. Down' = Down \ {k}
  BY <1>1 DEF Down
<1>3. IsFiniteSet(Down')
  BY <1>2, FS_RemoveElement
<1>4. rollover' = (rollover /\ Down' # {})
  BY DEF KeyUp
<1>5. Unreleased' \subseteq Keys \cup Modifiers \cup Others /\ rollover' \in BOOLEAN
  BY <1>1, <1>4 DEF Types
<1>6. CASE ProcessStandardKey(k, FALSE) /\ reported' = <<keycodes', modifiers'>>
  <2>1. k \in Keys /\ keycodes' = Remove(keycodes, k) /\ UNCHANGED modifiers
    BY <1>6 DEF ProcessStandardKey
  <2>2. /\ keycodes' \in Report /\ Packed(keycodes')
        /\ InReport(keycodes') = InReport(keycodes) \ {k}
    BY <2>1, RemoveKey DEF Types
  <2>3. InReport(keycodes') \subseteq Down'
    BY <1>2, <2>2
  <2>4. ~rollover' => Down' \subseteq InReport(keycodes')
    BY <1>2, <1>4, <2>2
  <2>5. modifiers' \subseteq Unreleased'
    BY <1>1, <2>1, DisjointAssumption DEF Types
  <2>6. Types'
    BY <1>5, <2>1, <2>2 DEF Types
  <2> QED  BY <1>3, <1>6, <2>2, <2>3, <2>4, <2>5, <2>6
<1>7. CASE \/ HandleModifierKey(k, FALSE) /\ reported' = <<keycodes', modifiers'>>
           \/ k \in Others /\ UNCHANGED <<keycodes, modifiers, reported>>
  <2>1. k \notin Keys
    BY <1>7, DisjointAssumption DEF HandleModifierKey
  <2>2. /\ UNCHANGED keycodes /\ reported' = <<keycodes', modifiers'>>
        /\ modifiers' \subseteq modifiers \ {k}
    BY <1>7, DisjointAssumption DEF HandleModifierKey, Types
  <2>3. Down' = Down
    BY <1>2, <2>1 DEF Down
  <2>4. Types'
    BY <1>5, <2>2 DEF Types
  <2>5. ~rollover' => Down' \subseteq InReport(keycodes')
    BY <1>4, <2>2, <2>3
  <2>6. modifiers' \subseteq Unreleased'
    BY <1>1, <2>2
  <2> QED  BY <1>3, <2>2, <2>3, <2>4, <2>5, <2>6
<1> QED
  BY <1>6, <1>7 DEF KeyUp, PollKeyEvent

LEMMA OtherInv ==
  ASSUME Inv, ClearAllStates \/ ResetSyntheticState \/ UNCHANGED vars
  PROVE  Inv'
<1> USE DEF Inv, Unreleased
<1>1. CASE ClearAllStates
  <2>1. UNCHANGED <<rollover, keycodes, modifiers, reported>>
    BY <1>1, DisjointAssumption DEF ClearAllStates, PollKeyEvent, HandleModifierKey, ProcessStandardKey
  <2>2. held' = {} /\ stuck' = stuck \cup held
    BY <1>1 DEF ClearAllStates
  <2>3. Down' = Down
    BY <2>2 DEF Down
  <2> QED  BY <2>1, <2>2, <2>3 DEF Types
<1>2. CASE ResetSyntheticState
  <2>1. /\ keycodes' = NoKeys /\ modifiers' = {} /\ reported' = <<NoKeys, {}>>
        /\ stuck' = {} /\ UNCHANGED held
        /\ rollover' = (held \cap Keys # {})
    BY <1>2 DEF ResetSyntheticState
  <2>2. Down' = held \cap Keys /\ Down' \subseteq Down
    BY <2>1 DEF Down
  <2>3. IsFiniteSet(Down')
    BY <2>2, FS_Subset
  <2>4. Types'
    BY <2>1, NoKeysReport DEF Types
  <2> QED  BY <2>1, <2>2, <2>3, <2>4, NoKeysReport
<1>3. CASE UNCHANGED vars
  BY <1>3, DownUnchanged DEF vars, Types
<1> QED  BY <1>1, <1>2, <1>3

\* The report stays packed and shows what the events consumed so far explain.
THEOREM Invariance == Spec => []Inv
<1>1. Inv /\ [Next]_vars => Inv'
  BY KeyDownInv, KeyUpInv, OtherInv DEF Next
<1> QED
  BY <1>1, InitInv, PTL DEF Spec

LEMMA PressedKeys == Inv => Pressed = InReport(keycodes)
BY DEF Inv, Types, Report, Pressed, InReport, Range

\* The slots only ever hold keys, and the modifier bits only modifiers.
THEOREM TypeCorrect == Spec => []TypeOK
<1>1. Inv => TypeOK
  BY DEF Inv, Types, Report, TypeOK
<1> QED
  BY <1>1, Invariance, PTL

\* The report never has a gap or a key twice, whatever the order of the releases.
THEOREM ReportPacked == Spec => []Compact
<1>1. Inv => Compact
  BY DEF Inv, Packed, Compact
<1> QED
  BY <1>1, Invariance, PTL

\* Up to six keys, the report shows every key that is down, and only those.
THEOREM ReportExact == Spec => []ReportComplete
<1>1. Inv => ReportComplete
  BY PressedKeys DEF Inv, ReportComplete
<1> QED
  BY <1>1, Invariance, PTL
=============================================================================
