CONSTANTS
  Versions = {1, 2}
  Digests = {g1, g2}
  Programs = {p1}
  KeepVersions = 1
  None = None
SPECIFICATION Spec
SYMMETRY Interchangeable
INVARIANTS NoMixedVersion FreshInstallSurvives GarbageIsBounded
PROPERTY RemovalSparesReferences
