CONSTANTS
  Ap = {a1, a2}
  NoAp = NoAp
  MaxSubmissions = 2
  MaxRedirects = 2
  MaxGeneration = 5
SPECIFICATION Spec
INVARIANTS
  WritesStayHome
  LateWorkIsBounded
PROPERTIES
  ImplementsPortalJob
  WorkerComesBack
