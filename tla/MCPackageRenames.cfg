SPECIFICATION Spec
CONSTANTS
  A = A
  B = B
  Absent = Absent
  Segments <- MCSegments
  Names <- MCNames
  Components <- MCComponents
  Packages <- MCPackages
  Rules <- MCRules
INVARIANTS
  MoveIsFound
PROPERTIES
  RenameWidensNothing
  NothingIsLeftUngoverned
