CONSTANTS
  u1 = u1
  u2 = u2
  u3 = u3
  NoUd = NoUd
  Uds <- MCUds
  Events <- MCEvents
SPECIFICATION Spec
SYMMETRY Symm
INVARIANT TypeOK
INVARIANT GcRestored
INVARIANT NoShadowing
PROPERTY ImplementsLifecycle
