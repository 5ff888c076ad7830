SPECIFICATION Spec
CONSTANTS
  Plain = {f}
  Components = {a, b, c}
  Budgets = {v}
  MaxCount = 2
  MaxEdits = 2
SYMMETRY Symmetry
INVARIANTS
  NoUndecidedDebt
PROPERTIES
  RewriteOnlyShrinks
