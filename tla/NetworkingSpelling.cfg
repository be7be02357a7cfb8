SPECIFICATION Spec

CONSTANTS
  Clients = {c1, c2}
  Apps = {"A", "B"}
  Spellings = {"example.com", "Example.com"}
  Normalize <- MCNormalize
  Paths = {"/", "/api"}
  Ports = {80, 81}
  Ops = {"apply"}
  MaxRequests = 2

SYMMETRY Symmetry

CHECK_DEADLOCK FALSE

PROPERTIES
  ApplyKeepsDomains
