\* state.c when reading or writing the file may fail.
CONSTANTS
  u1 = u1
  u2 = u2
  u3 = u3
  p1 = p1
  p2 = p2
  p3 = p3
  NoPath = NoPath
  Units = {u1, u2, u3}
  Paths = {p1, p2, p3}
  LoadFaults = TRUE
  SaveFaults = TRUE
SPECIFICATION Spec
INVARIANT TypeOK
PROPERTY RegistrySpec
