CONSTANTS
  Keys = {a, b, c, d, e, f, g}
  Modifiers = {shift}
  Others = {zero}
  NoKey = NoKey
SPECIFICATION Spec
INVARIANTS TypeOK ReportComplete Compact
SYMMETRY KeySymmetry
