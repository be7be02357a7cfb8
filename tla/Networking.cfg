SPECIFICATION Spec

CONSTANTS
  Clients = {c1, c2}
  Apps = {"A", "B"}
  Spellings = {"example.com"}
  Normalize <- MCNormalize
  Paths = {"/", "/api"}
  Ports = {80, 81}
  Ops = {"domain", "service", "ingress", "delete", "apply"}
  MaxRequests = 4

SYMMETRY Symmetry

CHECK_DEADLOCK FALSE

INVARIANTS
  IngressWithinApplication

PROPERTIES
  ApplyStaysWithin
  ApplyConfigures
