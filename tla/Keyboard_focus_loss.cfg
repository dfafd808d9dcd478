CONSTANTS
  Keys = {a, b}
  Modifiers = {shift}
  Others = {zero}
  NoKey = NoKey
SPECIFICATION Spec
INVARIANTS NoPhantomKey
SYMMETRY KeySymmetry
