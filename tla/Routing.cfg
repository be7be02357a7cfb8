SPECIFICATION Spec
CONSTANTS
  Apps = {"A", "B"}
  Spellings = {"example.com"}
  Normalize <- MCNormalize
  Paths = {"/", "/api"}
  Ports = {80, 81}
  Instances = {1}
  AppOf <- MCAppOf
  PortOf <- MCPortOf
  MaxChanges = 5
INVARIANTS
  OneRulePerPath
PROPERTIES
  RoutesWereTrue
  DrainedBeforeStop
  TableConverges
