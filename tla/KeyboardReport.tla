--------------------------- MODULE KeyboardReport ---------------------------
(***************************************************************************)
(* SyntheticEventTranslator.cpp: the six-key report of the synthetic       *)
(* keyboard, and the keyboard branch of PollSyntheticEvents, which rebuilds *)
(* it from the key events of MainActivity.  A key event is one step here:   *)
(* the events arrive in order and none is dropped (SyntheticHid is about    *)
(* their way to the host), so "held" is what the events consumed so far     *)
(* say.  A key stands for its Android key code and its HID usage alike:     *)
(* AndroidToHidMap gives no two codes the same usage.                       *)
(***************************************************************************)
EXTENDS Integers, FiniteSets, Functions

CONSTANTS Keys,       \* keys AndroidToHidMap has a usage for
          Modifiers,  \* keys HandleModifierKey knows
          Others,     \* key codes neither knows, such as 0
          NoKey       \* usage 0x00: a free slot of the report

ASSUME KeyAssumption == NoKey \notin Keys
ASSUME DisjointAssumption == /\ Keys \cap Modifiers = {}
                             /\ (Keys \cup Modifiers) \cap Others = {}

Slots == 1..6

VARIABLES keycodes, modifiers,  \* g_CurrentKeyboardState
          reported,             \* the last report handed to the host
          held,                 \* keys and modifiers pressed, until released or focus is lost
          stuck,                \* those held when the view lost focus, no release seen
          rollover              \* whether more than six were down since none was
vars == <<keycodes, modifiers, reported, held, stuck, rollover>>

NoKeys == [i \in Slots |-> NoKey]

Init ==
  /\ keycodes = NoKeys
  /\ modifiers = {}
  /\ reported = <<NoKeys, {}>>
  /\ held = {} /\ stuck = {}
  /\ rollover = FALSE

\* The first slot holding k, if there is one.
SlotsOf(a, k) == {i \in Slots : a[i] = k}
First(S) == CHOOSE i \in S : \A j \in S : i <= j

Insert(a, k) ==
  IF SlotsOf(a, k) # {} \/ SlotsOf(a, NoKey) = {}
  THEN a
  ELSE [a EXCEPT ![First(SlotsOf(a, NoKey))] = k]

Remove_NoShift(a, k) == IF SlotsOf(a, k) = {} THEN a ELSE [a EXCEPT ![First(SlotsOf(a, k))] = NoKey]
Remove_DropsLast(a, k) ==
  IF SlotsOf(a, k) = {}
  THEN a
  ELSE [i \in Slots |-> IF i < First(SlotsOf(a, k)) THEN a[i] ELSE IF i < 5 THEN a[i + 1] ELSE NoKey]
\* The keys behind the released one move up.
Remove(a, k) ==
  IF SlotsOf(a, k) = {}
  THEN a
  ELSE [i \in Slots |-> IF i < First(SlotsOf(a, k)) THEN a[i] ELSE IF i < 6 THEN a[i + 1] ELSE NoKey]

HandleModifierKey_AnyKey(k, isDown) ==
  /\ modifiers' = IF isDown THEN modifiers \cup {k} ELSE modifiers \ {k}
  /\ UNCHANGED keycodes

\* HandleModifierKey, then ProcessStandardKey; a report is sent if either knows
\* the key, and otherwise the event is consumed and the URB stays parked.
HandleModifierKey(k, isDown) ==
  /\ k \in Modifiers
  /\ modifiers' = IF isDown THEN modifiers \cup {k} ELSE modifiers \ {k}
  /\ UNCHANGED keycodes

ProcessStandardKey(k, isDown) ==
  /\ k \in Keys
  /\ keycodes' = IF isDown THEN Insert(keycodes, k) ELSE Remove(keycodes, k)
  /\ UNCHANGED modifiers

PollKeyEvent(k, isDown) ==
  \/ HandleModifierKey(k, isDown) /\ reported' = <<keycodes', modifiers'>>
  \/ ProcessStandardKey(k, isDown) /\ reported' = <<keycodes', modifiers'>>
  \/ k \in Others /\ UNCHANGED <<keycodes, modifiers, reported>>

-----------------------------------------------------------------------------
\* The keys and modifiers whose release the translator was not handed.
Unreleased == held \cup stuck
Down == Unreleased \cap Keys

\* dispatchKeyEvent passes on a press, the repeats while it is held, a release.
KeyDown(k) ==
  /\ held' = held \cup {k}
  /\ stuck' = stuck \ {k}
  /\ rollover' = (rollover \/ Cardinality(Down') > Cardinality(Slots))
  /\ PollKeyEvent(k, TRUE)

KeyUp(k) ==
  /\ k \in Unreleased
  /\ held' = held \ {k}
  /\ stuck' = stuck \ {k}
  /\ rollover' = (rollover /\ Down' # {})
  /\ PollKeyEvent(k, FALSE)

\* clearAllStates, when the view loses focus: it pushes a keyboard event with key
\* code 0, which releases nothing; the releases of the keys held may never come.
ClearAllStates ==
  /\ held' = {}
  /\ stuck' = stuck \cup held
  /\ UNCHANGED rollover
  /\ \E k \in Others : PollKeyEvent(k, FALSE)

\* ResetSyntheticState, when a host imports the device: it has seen no report yet.
ResetSyntheticState ==
  /\ keycodes' = NoKeys
  /\ modifiers' = {}
  /\ reported' = <<NoKeys, {}>>
  /\ stuck' = {}
  /\ rollover' = (held \cap Keys # {})
  /\ UNCHANGED held

Next ==
  \/ \E k \in Keys \cup Modifiers \cup Others : KeyDown(k) \/ KeyUp(k)
  \/ ClearAllStates
  \/ ResetSyntheticState

Spec == Init /\ [][Next]_vars

-----------------------------------------------------------------------------
(* Properties *)

TypeOK ==
  /\ keycodes \in [Slots -> Keys \cup {NoKey}]
  /\ modifiers \subseteq Modifiers
  /\ reported \in [Slots -> Keys \cup {NoKey}] \X SUBSET Modifiers
  /\ Unreleased \subseteq Keys \cup Modifiers \cup Others
  /\ rollover \in BOOLEAN

Pressed == Range(reported[1]) \ {NoKey}

\* The host never sees a key or modifier pressed that the user does not hold: a loss of
\* focus, of which the keys held get no release, clears what was pressed.
NoPhantomKey == Pressed \cup reported[2] \subseteq held

\* The report has no key twice and no gap, whatever order keys are released in:
\* a gap or a copy would make the next release leave a key behind.
Compact ==
  \A i, j \in Slots :
    i < j => /\ keycodes[i] = NoKey => keycodes[j] = NoKey
             /\ keycodes[i] # NoKey => keycodes[i] # keycodes[j]

\* Until a seventh key goes down (or the device is imported under held keys) the
\* host sees exactly the keys whose release the translator was not handed: those the user
\* holds and, as NoPhantomKey does not hold, those held when the view lost focus.
ReportComplete == ~rollover => Pressed = Down
=============================================================================
