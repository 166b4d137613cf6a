CONSTANTS
  MaxTop = 3
  MaxNest = 2
  Changes <- MCChanges
SPECIFICATION Spec
INVARIANT TypeOK
PROPERTY GuardBalance
